---------------------------- MODULE Spec2Model ----------------------------
(***************************************************************************)
(* LibreCrawl (src/main.py): the per-session registry of crawler           *)
(* instances, its idle sweep, the boot-time crash recovery and the         *)
(* graceful shutdown.                                                      *)
(*                                                                         *)
(* Time is counted in minutes.  Objects (WebCrawler, SettingsManager) are  *)
(* identified by the order of their construction.                          *)
(***************************************************************************)
EXTENDS Integers, Sequences, FiniteSets, TLC

(***************************************************************************)
(* Bounds of the model.                                                    *)
(***************************************************************************)
NumThreads == 2      \* request threads of the WSGI server that are modelled
NumClients == 2      \* browsers (cookie jars)
MaxSid     == 2      \* session ids uuid4() hands out
MaxObj     == 2      \* registry entries constructed in one process lifetime
MaxCrawl   == 2      \* crawl ids of the crawl database
MaxHours   == 1      \* hours of wall-clock time that are modelled
MaxOld     == 1      \* clients whose cookie holds a session id of an earlier process
MaxLinks   == 2      \* link records of a stored crawl whose links are varied
MaxLogged  == 4      \* guest crawls that are logged for the one client IP
MinCursor  == -1     \* the least since-index a status poll carries
MaxResults == 3      \* URL records an engine holds at most
MaxCursor  == 1      \* the greatest since-index a status poll carries
MaxRetries == 3      \* the greatest retries argument of fetch_markdown_for_url
MaxTargets == 3      \* the URLs a batch_md run exports at most
MaxWorkers == 2      \* the greatest --max-workers argument of batch_md
MaxPages   == 2      \* the pages of a site that crawl_site has crawled

(***************************************************************************)
(* Program constants, in minutes.                                          *)
(***************************************************************************)
TimeoutMinutes == 60     \* timedelta(hours=1)
SleepMinutes   == 5      \* time.sleep(300)
GuestLimit     == 3      \* crawls_from_ip >= 3
BackoffCap     == 30     \* min(30, backoff ** attempt), in seconds

Threads   == 1..NumThreads
Clients   == 1..NumClients
Sids      == 1..MaxSid
Objs      == 1..MaxObj
CrawlIds  == 1..MaxCrawl
\* the times at which something happens: the first two minutes of each hour
Times     == { h * 60 + m : h \in 0..MaxHours, m \in 0..1 }
\* a time more than the idle threshold after every time of Times; it stands for
\* every later time, so a sleep that begins at it is over at it
EndOfTime == (MaxHours + 1) * 60 + 2

NoSid   == 0             \* 'session_id' not in session
NoObj   == 0             \* None
NoCrawl == 0             \* crawler.crawl_id is None
NoThread == 0            \* instances_lock is free
NoUser  == 0             \* session['user_id'] is None: a guest
CleanupThread  == NumThreads + 1
MainThread     == NumThreads + 2

\* the user accounts; every client but the last is logged in as the user of its
\* number, the last client is a guest
Accounts  == 1..NumClients

Statuses == {"running", "completed", "failed", "paused", "archived"}
Absent   == "absent"     \* no row for the crawl id

VARIABLES
    clock,              \* datetime.now()
    cookie,             \* per client: the session id its cookie carries
    crawler_instances,  \* the registry: a dict, kept in insertion order
    instances_lock,     \* the thread holding instances_lock, or NoThread
    nextSid,            \* session ids handed out so far
    nextObj,            \* registry entries constructed so far
    pc,                 \* per request thread: position in its request
    client,             \* per request thread: the client it serves
    session_id,         \* per request thread: session['session_id']
    fn,                 \* per request thread: the accessor being run
    found,              \* per request thread: result of `session_id in crawler_instances`
    crawler,            \* per request thread: the WebCrawler it was handed
    settings,           \* per request thread: the SettingsManager it was handed
    modified,           \* per request thread: the session was written (Set-Cookie follows)
    engine,             \* per WebCrawler object: is_running, crawl_id, db_save_enabled
    crawls,             \* the crawl database: crawl id -> status
    nextCrawl,          \* crawl ids handed out so far
    mainpc,             \* position of the main thread
    recover,            \* recover_crashed_crawls: the rows still to rewrite
    bootStatus,         \* history: the status of each crawl at process start
    recoverFault,       \* history: a database call of the crash recovery failed
    cpc,                \* position of the cleanup thread
    wake,               \* the time the cleanup thread's sleep ends
    now,                \* cleanup_old_instances: its `now`
    sessions_to_remove, \* cleanup_old_instances: its list
    sweepSeen,          \* history: the registry as the sweep scanned it
    stopRaised,         \* history: engines whose stop_crawl raised in this sweep
    stopAsked,          \* history: engines whose stop_crawl the sweep has called
    spc,                \* position of graceful_shutdown
    snapshot,           \* graceful_shutdown: list(crawler_instances.items()) still to visit
    saved,              \* history: per crawl id, what graceful_shutdown did for it
    eligible,           \* history: crawl ids graceful_shutdown found eligible
    shutFailed,         \* history: crawl ids of which a save step raised or failed
    visited,            \* history: engines graceful_shutdown has looked at
    built,              \* history: per session id, objects constructed for it
    evicted,            \* history: per session id, entries the sweep deleted
    job,                \* per request thread: the crawl_id of a load that passed its checks
    owner,              \* the crawl database: crawl id -> user_id of the row
    stored,             \* the crawl database: crawl id -> the persisted records
    held,               \* per WebCrawler object: crawl_results, links, issues, stats
    force_full_refresh, \* per client: the 'force_full_refresh' its cookie carries
    refresh,            \* per request thread: session['force_full_refresh']
    status_data,        \* per request thread: the arguments and response of a status poll
    after_load,         \* history, per request thread: the request began when a load
                        \* of its client had been answered and no poll made since
    crawls_from_ip,     \* per request thread: the guest crawls counted for the client IP
    was_running,        \* per request thread: crawler.is_running as line 1044 read it
    before,             \* history, per request thread: what the session's engine held
                        \* when the load of the request had fetched it
    due,                \* history, per client: a load was answered, no poll made since
    guest_crawls,       \* the guest crawls logged for the IP in the last 24 hours
    patterns,           \* per SettingsManager object: the issues its patterns exclude
    logged_out,         \* history: the session ids whose logout was answered
    account,            \* per client: the 'user_id' its cookie carries
    user_id,            \* per request thread: session.get('user_id')
    scope,              \* per SettingsManager object: the user_id it was made for
    fetch,              \* batch_md: the frame of fetch_markdown_for_url
    batch,              \* batch_md: main(), its tasks and the output directory
    site                \* batch_universities: the frame of crawl_site and its crawl

vars == << clock, cookie, crawler_instances, instances_lock, nextSid, nextObj,
           pc, client, session_id, fn, found, crawler, settings, modified, engine, crawls,
           nextCrawl, mainpc, recover, bootStatus, recoverFault, cpc, wake, now,
           sessions_to_remove, sweepSeen, stopRaised, stopAsked, spc, snapshot,
           saved, eligible, shutFailed, visited, built, evicted,
           job, owner, stored, held, force_full_refresh,
           refresh, status_data, after_load, crawls_from_ip, was_running, before, due,
           guest_crawls, patterns, logged_out, account, user_id, scope,
           fetch, batch, site >>

pollVars  == << refresh, status_data, after_load, crawls_from_ip, was_running, before,
               user_id >>
reqVars   == << pc, client, session_id, fn, found, crawler, settings, modified, job, pollVars >>
siteVars  == << due, guest_crawls, patterns, logged_out, account >>
jobVars   == << owner, stored, held, force_full_refresh, siteVars >>
sweepVars == << cpc, wake, now, sessions_to_remove, sweepSeen, stopRaised, stopAsked >>
shutVars  == << spc, snapshot, saved, eligible, shutFailed, visited >>
histVars  == << built, evicted, scope >>
dbVars    == << crawls, nextCrawl >>
regVars   == << crawler_instances, instances_lock, nextObj >>
clockVars == << clock >>
bootVars  == << mainpc, recover, bootStatus, recoverFault >>
scriptVars == << fetch, batch, site >>
\* the variables of the server process
serverVars == << jobVars, reqVars, cookie, nextSid, regVars, clockVars, engine, dbVars,
                bootVars, sweepVars, shutVars, histVars >>

(***************************************************************************)
(* The registry is a Python dict: a sequence of (key, value) items in      *)
(* insertion order, one item per key.                                      *)
(***************************************************************************)
Keys(d) == { d[i].sid : i \in DOMAIN d }

Has(d, s) == s \in Keys(d)

Idx(d, s) == CHOOSE i \in DOMAIN d : d[i].sid = s

Item(d, s) == d[Idx(d, s)]

\* d[s] = {...}: replaces the value of an existing key, appends a new key
SetItem(d, s, e) ==
    IF Has(d, s) THEN [d EXCEPT ![Idx(d, s)] = e] ELSE Append(d, e)

\* del d[s]
DelItem(d, s) == SelectSeq(d, LAMBDA e : e.sid # s)

Alive == spc # "exited"

\* session.get('user_id') in a request of client c
UserOf(c) == IF c < NumClients THEN c ELSE NoUser

(***************************************************************************)
(* The crawl engine and the crawl database (src/crawler.py and             *)
(* src/crawl_db.py of the repository).                                     *)
(***************************************************************************)
\* a crawl without records
NoRecords == [base_url |-> NoCrawl, urls |-> << >>, links |-> << >>, issues |-> << >>]

\* the URLs of varied link records: one without and one with a "|" in it
Urls == { << "a" >>, << "a", "|", "a" >> }

\* a link record from page src to page dst
Link(src, dst) == [source_url |-> src, target_url |-> dst]

\* the records the crawl database holds of crawl i when the process starts: the
\* first crawl has two pages with three links, two of them the same pair, and one
\* issue; every other crawl has one page that links to itself
Checkpoint(i) ==
    IF i = 1
    THEN [base_url |-> i,
          urls   |-> << << "a" >>, << "b" >> >>,
          links  |-> << Link(<< "a" >>, << "b" >>), Link(<< "b" >>, << "a" >>),
                        Link(<< "a" >>, << "b" >>) >>,
          issues |-> << << "a" >> >>]
    ELSE [base_url |-> i,
          urls   |-> << << "c" >> >>,
          links  |-> << Link(<< "c" >>, << "c" >>) >>,
          issues |-> << >>]

\* the working state of WebCrawler(): no results, links or issues; the last two
\* fields are history: the crawl whose records a load or resume injected last
\* (NoCrawl since the engine crawled on its own), and the number of URL records
\* the engine held when they were injected
NewWorkingState ==
    [base_url |-> NoCrawl, crawl_results |-> << >>, crawled |-> 0, discovered |-> 0,
     all_links |-> << >>, links_set |-> {}, detected_issues |-> << >>,
     loaded |-> NoCrawl, replaced |-> 0]

\* no status poll was made in the request
NoStatus == << >>

\* WebCrawler()
NewEngine == [is_running |-> FALSE, crawl_id |-> NoCrawl, db_save_enabled |-> FALSE]

\* set_crawl_status(crawl_id, status) that succeeds
SetCrawlStatus(db, id, st) ==
    IF id \in CrawlIds /\ db[id] # Absent THEN [db EXCEPT ![id] = st] ELSE db

\* get_crashed_crawls(): the rows whose status is running, by id
RECURSIVE CrashedFrom(_, _)
CrashedFrom(db, i) ==
    IF i > MaxCrawl THEN << >>
    ELSE IF db[i] = "running" THEN << i >> \o CrashedFrom(db, i + 1)
    ELSE CrashedFrom(db, i + 1)

GetCrashedCrawls(db) == CrashedFrom(db, 1)

\* the highest crawl id in use
RECURSIVE LastRow(_, _)
LastRow(db, i) ==
    IF i = 0 THEN 0 ELSE IF db[i] # Absent THEN i ELSE LastRow(db, i - 1)

\* main() with the cleanup thread started before the crash recovery
MainProgram_CleanupFirst == << "start_cleanup", "recover", "start_server", "serving" >>

\* lines 1450-1479: the statements of main() after the signal handlers are set
MainProgram == << "recover", "start_cleanup", "start_server", "serving" >>

\* the statement of main() that follows statement l
MainAfter(l) ==
    LET i == CHOOSE j \in DOMAIN MainProgram : MainProgram[j] = l
    IN MainProgram[i + 1]

\* the process with the main thread at statement `at` of main() and the crawl
\* database db, nothing else having run; the cookies of the first `old` clients
\* still hold the session ids an earlier process gave them (the secret key that
\* signs them is a constant, line 40); the crawls have the owners own and the
\* records recs
\* fetch_markdown_for_url has not been called
NoFetch == [pc |-> "idle"]

\* batch_md's main() has not been called
NoBatch == [pc |-> "idle"]

\* crawl_site has not been called
NoSite == [pc |-> "idle"]

StartFrom(at, db, old, own, recs) ==
    /\ clock = 0
    /\ cookie = [c \in Clients |-> IF c <= old THEN c ELSE NoSid]
    /\ crawler_instances = << >>
    /\ instances_lock = NoThread
    /\ nextSid = old
    /\ nextObj = 0
    /\ pc = [t \in Threads |-> "idle"]
    /\ client = [t \in Threads |-> 1]
    /\ session_id = [t \in Threads |-> NoSid]
    /\ fn = [t \in Threads |-> "crawler"]
    /\ found = [t \in Threads |-> FALSE]
    /\ crawler = [t \in Threads |-> NoObj]
    /\ settings = [t \in Threads |-> NoObj]
    /\ modified = [t \in Threads |-> FALSE]
    /\ engine = [o \in Objs |-> NewEngine]
    /\ crawls = db
    /\ nextCrawl = LastRow(db, MaxCrawl)
    /\ mainpc = at
    /\ recover = << >>
    /\ bootStatus = db
    /\ recoverFault = FALSE
    /\ cpc = IF at = "serving" THEN "sleep" ELSE "off"
    /\ wake = IF at = "serving" THEN SleepMinutes ELSE 0
    /\ now = 0
    /\ sessions_to_remove = << >>
    /\ sweepSeen = << >>
    /\ stopRaised = {}
    /\ stopAsked = {}
    /\ spc = "none"
    /\ snapshot = << >>
    /\ saved = [i \in CrawlIds |-> {}]
    /\ eligible = {}
    /\ shutFailed = {}
    /\ visited = {}
    /\ built = [s \in Sids |-> 0]
    /\ evicted = [s \in Sids |-> 0]
    /\ job = [t \in Threads |-> NoCrawl]
    /\ owner = own
    /\ stored = recs
    /\ held = [o \in Objs |-> NewWorkingState]
    /\ force_full_refresh = [c \in Clients |-> FALSE]
    /\ refresh = [t \in Threads |-> FALSE]
    /\ status_data = [t \in Threads |-> NoStatus]
    /\ after_load = [t \in Threads |-> FALSE]
    /\ crawls_from_ip = [t \in Threads |-> 0]
    /\ was_running = [t \in Threads |-> FALSE]
    /\ before = [t \in Threads |-> NewWorkingState]
    /\ due = [c \in Clients |-> FALSE]
    /\ guest_crawls = 0
    /\ patterns = [o \in Objs |-> {}]
    /\ logged_out = {}
    /\ account = [c \in Clients |-> UserOf(c)]
    /\ user_id = [t \in Threads |-> NoUser]
    /\ scope = [o \in Objs |-> NoUser]
    /\ fetch = NoFetch
    /\ batch = NoBatch
    /\ site = NoSite

\* the same with the records of Checkpoint for every stored crawl
StartWith(at, db, old, own) ==
    StartFrom(at, db, old, own,
              [i \in CrawlIds |-> IF db[i] = Absent THEN NoRecords ELSE Checkpoint(i)])

\* the same, every crawl of the database having been started by a guest
StartAt(at, db, old) == StartWith(at, db, old, [i \in CrawlIds |-> NoUser])

\* the process starts: main() has set the signal handlers; the crawl database holds
\* what earlier processes left in it
Init ==
    \E db \in [CrawlIds -> Statuses \cup {Absent}], old \in 0..MaxOld :
        StartAt(MainProgram[1], db, old)

\* main() has reached serve(): the crawl database was empty, the cleanup thread sleeps
InitServing == \E old \in 0..MaxOld : StartAt("serving", [i \in CrawlIds |-> Absent], old)


(***************************************************************************)
(* Request threads.  A request carries the client's cookie; the accessors  *)
(* get_or_create_crawler and get_session_settings run under                *)
(* instances_lock.                                                         *)
(***************************************************************************)
\* a request of client c reaches thread t, carrying c's cookie
BeginRequest(t, c) ==
    /\ Alive /\ mainpc = "serving"
    /\ pc[t] = "idle"
    /\ pc' = [pc EXCEPT ![t] = "ready"]
    /\ client' = [client EXCEPT ![t] = c]
    /\ session_id' = [session_id EXCEPT ![t] = cookie[c]]
    /\ refresh' = [refresh EXCEPT ![t] = force_full_refresh[c]]
    /\ after_load' = [after_load EXCEPT ![t] = due[c]]
    /\ user_id' = [user_id EXCEPT ![t] = account[c]]
    /\ UNCHANGED << scriptVars, jobVars, job, fn, found, crawler, settings, modified, status_data,
                    crawls_from_ip, was_running, before, cookie, nextSid, regVars, clockVars, engine, dbVars,
                    bootVars, sweepVars, shutVars, histVars >>

\* the accessors without their `with instances_lock:`
LockFree_Unlocked(t) == TRUE

\* cleanup_old_instances without its `with instances_lock:`
LockFree_NotForSweep(t) == t = CleanupThread \/ instances_lock = NoThread

\* graceful_shutdown without the `with instances_lock:` of line 1421
LockFree_NotForShutdown(t) == t = MainThread \/ instances_lock = NoThread

\* `with instances_lock:` is entered only while no thread holds the lock
LockFree(t) == instances_lock = NoThread

\* every endpoint calls get_or_create_crawler first, if it calls it, and
\* get_session_settings after it, each at most once (lines 633-634, 682-683, ...)
CallsNext(t, f) ==
    /\ settings[t] = NoObj
    /\ f = "crawler" => crawler[t] = NoObj

\* lines 151-160 (176-185): the session id of the request, a new uuid4 if its cookie
\* carries none; then the lock is taken and `session_id not in crawler_instances`
\* is evaluated
EnterAccessor(t, f) ==
    /\ Alive
    /\ pc[t] = "ready"
    /\ CallsNext(t, f)
    /\ LockFree(t)
    /\ instances_lock' = t
    /\ fn' = [fn EXCEPT ![t] = f]
    /\ IF session_id[t] = NoSid
       THEN /\ nextSid < MaxSid
            /\ nextSid' = nextSid + 1
            /\ session_id' = [session_id EXCEPT ![t] = nextSid + 1]
            /\ modified' = [modified EXCEPT ![t] = TRUE]
       ELSE UNCHANGED << nextSid, session_id, modified >>
    /\ found' = [found EXCEPT ![t] = Has(crawler_instances, session_id'[t])]
    /\ found'[t] \/ nextObj < MaxObj
    /\ pc' = [pc EXCEPT ![t] = "locked"]
    /\ UNCHANGED << scriptVars, jobVars, job, pollVars, client, crawler, settings, cookie,
                    crawler_instances, nextObj,
                    clockVars, engine, dbVars, bootVars, sweepVars, shutVars, histVars >>

\* one WebCrawler and one SettingsManager made once and handed to every session
NewEntry_Shared(s, o, t) ==
    [sid |-> s, crawler |-> 1, settings |-> 1, last_accessed |-> t]

\* lines 162-166 (187-191): the entry of a new session
NewEntry(s, o, t) ==
    [sid |-> s, crawler |-> o, settings |-> o, last_accessed |-> t]

\* the else branch of lines 167-169 (192-194) left out: the entry stays as it was
Refreshed_KeepsTime(e, t) == e

\* line 169 (194): the entry with its last_accessed refreshed
Refreshed(e, t) == [e EXCEPT !.last_accessed = t]

\* the locals of a request thread between two requests
EndRequest(t) ==
    /\ pc' = [pc EXCEPT ![t] = "idle"]
    /\ client' = [client EXCEPT ![t] = 1]
    /\ session_id' = [session_id EXCEPT ![t] = NoSid]
    /\ crawler' = [crawler EXCEPT ![t] = NoObj]
    /\ settings' = [settings EXCEPT ![t] = NoObj]
    /\ modified' = [modified EXCEPT ![t] = FALSE]
    /\ job' = [job EXCEPT ![t] = NoCrawl]
    /\ refresh' = [refresh EXCEPT ![t] = FALSE]
    /\ status_data' = [status_data EXCEPT ![t] = NoStatus]
    /\ after_load' = [after_load EXCEPT ![t] = FALSE]
    /\ crawls_from_ip' = [crawls_from_ip EXCEPT ![t] = 0]
    /\ was_running' = [was_running EXCEPT ![t] = FALSE]
    /\ before' = [before EXCEPT ![t] = NewWorkingState]
    /\ user_id' = [user_id EXCEPT ![t] = NoUser]

\* the session of the request, if it was written, is sent back as the client's cookie
SendCookie(t) ==
    /\ cookie' = IF modified[t] THEN [cookie EXCEPT ![client[t]] = session_id[t]] ELSE cookie
    /\ force_full_refresh' =
           IF modified[t] THEN [force_full_refresh EXCEPT ![client[t]] = refresh[t]]
           ELSE force_full_refresh
    /\ account' = IF modified[t] THEN [account EXCEPT ![client[t]] = user_id[t]] ELSE account

\* lines 160-171 (185-196): insert or refresh, return the handle, leave the lock
LeaveAccessor(t) ==
    /\ Alive
    /\ pc[t] = "locked"
    /\ LET s == session_id[t] IN
       IF ~found[t]
       THEN /\ nextObj < MaxObj
            /\ nextObj' = nextObj + 1
            /\ crawler_instances' =
                   SetItem(crawler_instances, s, NewEntry(s, nextObj + 1, clock))
            /\ engine' = [engine EXCEPT ![nextObj + 1] = NewEngine]
            /\ built' = [built EXCEPT ![s] = @ + 1]
            /\ scope' = [scope EXCEPT ![nextObj + 1] = user_id[t]]
            /\ crawler' = [crawler EXCEPT ![t] = IF fn[t] = "crawler" THEN nextObj + 1 ELSE @]
            /\ settings' = [settings EXCEPT ![t] = IF fn[t] = "settings" THEN nextObj + 1 ELSE @]
            /\ pc' = [pc EXCEPT ![t] = "ready"]
            /\ UNCHANGED << client, session_id, modified, job, pollVars >>
       ELSE IF Has(crawler_instances, s)
       THEN /\ crawler_instances' =
                   SetItem(crawler_instances, s, Refreshed(Item(crawler_instances, s), clock))
            /\ crawler' = [crawler EXCEPT ![t] =
                   IF fn[t] = "crawler" THEN Item(crawler_instances, s).crawler ELSE @]
            /\ settings' = [settings EXCEPT ![t] =
                   IF fn[t] = "settings" THEN Item(crawler_instances, s).settings ELSE @]
            /\ pc' = [pc EXCEPT ![t] = "ready"]
            /\ UNCHANGED << nextObj, engine, built, scope, client, session_id, modified, job,
                            pollVars >>
       ELSE \* KeyError at line 169 (194): the request ends with an error response
            /\ EndRequest(t)
            /\ UNCHANGED << crawler_instances, nextObj, engine, built, scope >>
    /\ instances_lock' = IF instances_lock = t THEN NoThread ELSE instances_lock
    /\ fn' = [fn EXCEPT ![t] = "crawler"]
    /\ found' = [found EXCEPT ![t] = FALSE]
    /\ UNCHANGED << scriptVars, jobVars, cookie, nextSid, clockVars, dbVars, bootVars, sweepVars, shutVars,
                    evicted >>

\* the response is sent; a written session is sent back as the client's cookie
Respond(t) ==
    /\ Alive
    /\ pc[t] = "ready"
    /\ job[t] = NoCrawl
    /\ SendCookie(t)
    /\ EndRequest(t)
    /\ UNCHANGED << scriptVars, owner, stored, held, due, guest_crawls, patterns, logged_out, fn, found, nextSid, regVars, clockVars,
                    engine, dbVars, bootVars, sweepVars, shutVars, histVars >>

(***************************************************************************)
(* Engine operations (WebCrawler, src/crawler.py of the repository).       *)
(***************************************************************************)
\* /api/start_crawl, line 662: crawler.start_crawl(url, user_id, session_id)
StartCrawl(t, persist) ==
    /\ Alive
    /\ pc[t] = "ready"
    /\ crawler[t] # NoObj
    /\ job[t] = NoCrawl
    /\ ~engine[crawler[t]].is_running
    /\ held' = [held EXCEPT ![crawler[t]] = NewWorkingState]
    /\ IF persist
       THEN /\ nextCrawl < MaxCrawl
            /\ nextCrawl' = nextCrawl + 1
            /\ crawls' = [crawls EXCEPT ![nextCrawl + 1] = "running"]
            /\ owner' = [owner EXCEPT ![nextCrawl + 1] = UserOf(client[t])]
            /\ stored' = [stored EXCEPT ![nextCrawl + 1] = NoRecords]
            /\ engine' = [engine EXCEPT ![crawler[t]] =
                   [is_running |-> TRUE, crawl_id |-> nextCrawl + 1, db_save_enabled |-> TRUE]]
            /\ modified' = [modified EXCEPT ![t] = TRUE]
       ELSE /\ engine' = [engine EXCEPT ![crawler[t]] =
                   [is_running |-> TRUE, crawl_id |-> NoCrawl, db_save_enabled |-> FALSE]]
            /\ UNCHANGED << dbVars, modified, owner, stored >>
    /\ UNCHANGED << scriptVars, pc, client, session_id, job, pollVars, fn, found, crawler, settings,
                    cookie, nextSid, regVars, clockVars, bootVars, sweepVars, shutVars,
                    histVars, force_full_refresh, siteVars >>

\* the state of an engine after stop_crawl() returned
Stopped(e) == [e EXCEPT !.is_running = FALSE]

\* the crawl database after the engine of crawl id ended with status st
Ended(db, e, st) ==
    IF e.is_running /\ e.db_save_enabled THEN SetCrawlStatus(db, e.crawl_id, st) ELSE db

\* /api/stop_crawl, line 676: crawler.stop_crawl()
StopCrawl(t) ==
    /\ Alive
    /\ pc[t] = "ready"
    /\ job[t] = NoCrawl
    /\ crawler[t] # NoObj
    /\ engine[crawler[t]].is_running
    /\ engine' = [engine EXCEPT ![crawler[t]] = Stopped(@)]
    /\ crawls' = Ended(crawls, engine[crawler[t]], "completed")
    /\ UNCHANGED << scriptVars, jobVars, reqVars, cookie, nextSid, regVars, clockVars, nextCrawl, bootVars,
                    sweepVars, shutVars, histVars >>

\* the engine's own thread reaches the end of its crawl
EngineDone(o) ==
    /\ Alive
    /\ engine[o].is_running
    /\ engine' = [engine EXCEPT ![o] = Stopped(@)]
    /\ crawls' = Ended(crawls, engine[o], "completed")
    /\ UNCHANGED << scriptVars, jobVars, reqVars, cookie, nextSid, regVars, clockVars, nextCrawl, bootVars,
                    sweepVars, shutVars, histVars >>

\* the wall clock advances to a later time
Tick(later) ==
    /\ Alive
    /\ later > clock
    /\ clock' = later
    /\ UNCHANGED << scriptVars, jobVars, reqVars, cookie, nextSid, regVars, engine, dbVars, bootVars,
                    sweepVars, shutVars, histVars >>

(***************************************************************************)
(* The job endpoints: load, resume, archive and delete a stored crawl.     *)
(***************************************************************************)
\* line 1064: f"{link['source_url']}|{link['target_url']}"
LinkKey(link) == link.source_url \o << "|" >> \o link.target_url

\* lines 1062-1066: links_set.clear(), then the key of every loaded link is added
LinksSet(links) == { LinkKey(links[i]) : i \in DOMAIN links }

\* the injection with the loaded records added to what the engine holds
Injected_Appended(h, id, r) ==
    [base_url        |-> r.base_url,
     crawl_results   |-> h.crawl_results \o r.urls,
     crawled         |-> h.crawled + Len(r.urls),
     discovered      |-> h.discovered + Len(r.urls),
     all_links       |-> h.all_links \o r.links,
     links_set       |-> h.links_set \cup LinksSet(r.links),
     detected_issues |-> h.detected_issues \o r.issues,
     loaded          |-> id,
     replaced        |-> Len(h.crawl_results)]

\* lines 1053-1070: the records r of crawl id are injected into an engine whose
\* working state is h
Injected(h, id, r) ==
    [base_url        |-> r.base_url,
     crawl_results   |-> r.urls,
     crawled         |-> Len(r.urls),
     discovered      |-> Len(r.urls),
     all_links       |-> r.links,
     links_set       |-> LinksSet(r.links),
     detected_issues |-> r.issues,
     loaded          |-> id,
     replaced        |-> Len(h.crawl_results)]

\* the ownership check with a guest refused on a crawl that has an owner
Refused_OwnerOnly(user, own) == own # NoUser /\ own # user

\* lines 1038, 1124, 1145: if user_id and crawl.get('user_id') != user_id
Refused(user, own) == user # NoUser /\ own # user

\* the response of a job endpoint to `user` for crawl id: 404 without a row, 403
\* when the ownership check refuses, and otherwise the endpoint goes on
Checked(user, id) ==
    IF crawls[id] = Absent THEN "not_found"
    ELSE IF Refused(user, owner[id]) THEN "unauthorized"
    ELSE "ok"

\* the positions of a request whose job endpoint has its response
Responses == {"ok", "not_found", "unauthorized", "loaded", "polled", "limit", "error"}

\* /api/crawls/<id>/load, lines 1029-1039: the row is read and checked before the
\* session's engine is looked up
LoadCheck(t, id) ==
    /\ Alive
    /\ pc[t] = "ready"
    /\ job[t] = NoCrawl
    /\ crawler[t] = NoObj
    /\ job' = [job EXCEPT ![t] = id]
    /\ pc' = [pc EXCEPT ![t] = IF Checked(UserOf(client[t]), id) = "ok"
                               THEN "ready" ELSE Checked(UserOf(client[t]), id)]
    /\ UNCHANGED << scriptVars, jobVars, pollVars, client, session_id, fn, found, crawler, settings,
                    modified, cookie, nextSid, regVars, clockVars, engine, dbVars, bootVars,
                    sweepVars, shutVars, histVars >>

\* lines 1041-1083: a running crawl of the session's engine is stopped, the stored
\* records are read and injected, the session is flagged
LoadInject(t) ==
    /\ Alive
    /\ pc[t] = "ready"
    /\ job[t] # NoCrawl
    /\ crawler[t] # NoObj
    /\ engine' = [engine EXCEPT ![crawler[t]] = IF @.is_running THEN Stopped(@) ELSE @]
    /\ crawls' = Ended(crawls, engine[crawler[t]], "completed")
    /\ held' = [held EXCEPT ![crawler[t]] = Injected(@, job[t], stored[job[t]])]
    /\ refresh' = [refresh EXCEPT ![t] = TRUE]
    /\ modified' = [modified EXCEPT ![t] = TRUE]
    /\ pc' = [pc EXCEPT ![t] = "loaded"]
    /\ UNCHANGED << scriptVars, owner, stored, force_full_refresh, siteVars, status_data, after_load,
                    crawls_from_ip, was_running, before, user_id, client, session_id, job, fn, found,
                    crawler, settings,
                    cookie, nextSid, regVars, clockVars, nextCrawl, bootVars, sweepVars,
                    shutVars, histVars >>

\* a crawl thread of a running engine has fetched a page: its record is added to
\* crawl_results and counted
Appended(h) ==
    [h EXCEPT !.crawl_results = Append(@, << "n" >>), !.crawled = @ + 1,
              !.discovered = @ + 1, !.loaded = NoCrawl]

\* the engine's crawl thread adds the record of one more page
EngineAppend(o) ==
    /\ Alive
    /\ engine[o].is_running
    /\ Len(held[o].crawl_results) < MaxResults
    /\ held' = [held EXCEPT ![o] = Appended(@)]
    /\ UNCHANGED << scriptVars, owner, stored, force_full_refresh, siteVars, reqVars, cookie, nextSid,
                    regVars, clockVars, engine, dbVars, bootVars, sweepVars, shutVars,
                    histVars >>

\* lines 1044-1045: the engine after `if crawler.is_running: crawler.stop_crawl()`;
\* stop_crawl is best effort: it returns with the crawl ended (done) or, its
\* budget used up, with the crawl still running
StopAsked(e, done) == IF e.is_running /\ done THEN Stopped(e) ELSE e

\* lines 1041-1045, the load step by step: the session's engine is at hand and a
\* running crawl of it is asked to stop
LoadStop(t, done) ==
    /\ Alive
    /\ pc[t] = "ready"
    /\ job[t] # NoCrawl
    /\ crawler[t] # NoObj
    /\ done \/ engine[crawler[t]].is_running
    /\ was_running' = [was_running EXCEPT ![t] = engine[crawler[t]].is_running]
    /\ before' = [before EXCEPT ![t] = held[crawler[t]]]
    /\ engine' = [engine EXCEPT ![crawler[t]] = StopAsked(@, done)]
    /\ crawls' = IF engine'[crawler[t]].is_running THEN crawls
                 ELSE Ended(crawls, engine[crawler[t]], "completed")
    /\ pc' = [pc EXCEPT ![t] = "stopped"]
    /\ UNCHANGED << scriptVars, jobVars, refresh, status_data, after_load, crawls_from_ip, user_id,
                    client,
                    session_id, job, fn, found, crawler, settings, modified, cookie, nextSid,
                    regVars, clockVars, nextCrawl, bootVars, sweepVars, shutVars, histVars >>

\* lines 1048-1050: the stored records are read; a read that raises is caught at
\* line 1085 and answered with 500
LoadRead(t, ok) ==
    /\ Alive
    /\ pc[t] = "stopped"
    /\ pc' = [pc EXCEPT ![t] = IF ok THEN "read" ELSE "error"]
    /\ UNCHANGED << scriptVars, jobVars, pollVars, client, session_id, job, fn, found, crawler, settings,
                    modified, cookie, nextSid, regVars, clockVars, engine, dbVars, bootVars,
                    sweepVars, shutVars, histVars >>

\* lines 1053-1058: the URL records, both counters and the base URL
InjectedResults(h, r) ==
    [h EXCEPT !.base_url = r.base_url, !.crawl_results = r.urls, !.crawled = Len(r.urls),
              !.discovered = Len(r.urls), !.replaced = Len(h.crawl_results)]

\* lines 1062-1066: the link records and the index rebuilt from them
InjectedLinks(h, r) == [h EXCEPT !.all_links = r.links, !.links_set = LinksSet(r.links)]

\* lines 1062-1065 when line 1065 raises for the first link record: the links are
\* assigned and the index is cleared
InjectedLinks_Raised(h, r) == [h EXCEPT !.all_links = r.links, !.links_set = {}]

\* line 1070: the issue records; the history field names the crawl loaded
InjectedIssues(h, id, r) == [h EXCEPT !.detected_issues = r.issues, !.loaded = id]

\* lines 1053-1058: the URL records are injected under results_lock
LoadResults(t) ==
    /\ Alive
    /\ pc[t] = "read"
    /\ held' = [held EXCEPT ![crawler[t]] = InjectedResults(@, stored[job[t]])]
    /\ pc' = [pc EXCEPT ![t] = "results"]
    /\ UNCHANGED << scriptVars, owner, stored, force_full_refresh, siteVars, pollVars, client, session_id,
                    job, fn, found, crawler, settings, modified, cookie, nextSid, regVars,
                    clockVars, engine, dbVars, bootVars, sweepVars, shutVars, histVars >>

\* lines 1061-1066: the link records are injected; what the loop raises is caught
\* at line 1085 and answered with 500
LoadLinks(t, ok) ==
    /\ Alive
    /\ pc[t] = "results"
    /\ ok \/ stored[job[t]].links # << >>
    /\ held' = [held EXCEPT ![crawler[t]] =
                   IF ok THEN InjectedLinks(@, stored[job[t]])
                   ELSE InjectedLinks_Raised(@, stored[job[t]])]
    /\ pc' = [pc EXCEPT ![t] = IF ok THEN "links" ELSE "error"]
    /\ UNCHANGED << scriptVars, owner, stored, force_full_refresh, siteVars, pollVars, client, session_id,
                    job, fn, found, crawler, settings, modified, cookie, nextSid, regVars,
                    clockVars, engine, dbVars, bootVars, sweepVars, shutVars, histVars >>

\* lines 1069-1075: the issue records are injected and the session is flagged
LoadIssues(t) ==
    /\ Alive
    /\ pc[t] = "links"
    /\ held' = [held EXCEPT ![crawler[t]] = InjectedIssues(@, job[t], stored[job[t]])]
    /\ refresh' = [refresh EXCEPT ![t] = TRUE]
    /\ modified' = [modified EXCEPT ![t] = TRUE]
    /\ pc' = [pc EXCEPT ![t] = "loaded"]
    /\ UNCHANGED << scriptVars, owner, stored, force_full_refresh, siteVars, status_data, after_load,
                    crawls_from_ip, was_running, before, user_id, client, session_id, job, fn, found,
                    crawler, settings, cookie, nextSid, regVars, clockVars, engine, dbVars,
                    bootVars, sweepVars, shutVars, histVars >>

\* /api/crawls/<id>/resume, lines 1098-1104: the session's engine resumes crawl id
\* (resume_from_database): the row is checked, a running crawl of the engine is
\* stopped, the stored records are injected, the crawl runs again
ResumeCrawl(t, id) ==
    /\ Alive
    /\ pc[t] = "ready"
    /\ job[t] = NoCrawl
    /\ crawler[t] # NoObj
    /\ job' = [job EXCEPT ![t] = id]
    /\ LET code == IF crawls[id] = Absent THEN "not_found"
                   ELSE IF Refused_OwnerOnly(UserOf(client[t]), owner[id])
                        THEN "unauthorized"
                   ELSE "ok"
           ended == Ended(crawls, engine[crawler[t]], "completed")
       IN  /\ pc' = [pc EXCEPT ![t] = code]
           /\ IF code = "ok"
              THEN /\ crawls' = SetCrawlStatus(ended, id, "running")
                   /\ engine' = [engine EXCEPT ![crawler[t]] =
                          [is_running |-> TRUE, crawl_id |-> id, db_save_enabled |-> TRUE]]
                   /\ held' = [held EXCEPT ![crawler[t]] = Injected(@, id, stored[id])]
                   /\ modified' = [modified EXCEPT ![t] = TRUE]
              ELSE UNCHANGED << crawls, engine, held, modified >>
    /\ UNCHANGED << scriptVars, owner, stored, force_full_refresh, siteVars, pollVars, client,
                    session_id, fn, found, crawler, settings, cookie, nextSid, regVars, clockVars, nextCrawl,
                    bootVars, sweepVars, shutVars, histVars >>

\* /api/crawls/<id>/archive, lines 1139-1151: set_crawl_status(crawl_id, 'archived')
ArchiveCrawl(t, id) ==
    /\ Alive
    /\ pc[t] = "ready"
    /\ job[t] = NoCrawl
    /\ job' = [job EXCEPT ![t] = id]
    /\ pc' = [pc EXCEPT ![t] = Checked(UserOf(client[t]), id)]
    /\ crawls' = IF Checked(UserOf(client[t]), id) = "ok"
                 THEN SetCrawlStatus(crawls, id, "archived") ELSE crawls
    /\ UNCHANGED << scriptVars, jobVars, pollVars, client, session_id, fn, found, crawler, settings,
                    modified, cookie, nextSid, regVars, clockVars, engine, nextCrawl, bootVars,
                    sweepVars, shutVars, histVars >>

\* /api/crawls/<id>/delete, lines 1118-1130: delete_crawl(crawl_id)
DeleteCrawl(t, id) ==
    /\ Alive
    /\ pc[t] = "ready"
    /\ job[t] = NoCrawl
    /\ job' = [job EXCEPT ![t] = id]
    /\ pc' = [pc EXCEPT ![t] = Checked(UserOf(client[t]), id)]
    /\ IF Checked(UserOf(client[t]), id) = "ok"
       THEN /\ crawls' = [crawls EXCEPT ![id] = Absent]
            /\ owner' = [owner EXCEPT ![id] = NoUser]
            /\ stored' = [stored EXCEPT ![id] = NoRecords]
       ELSE UNCHANGED << crawls, owner, stored >>
    /\ UNCHANGED << scriptVars, held, force_full_refresh, siteVars, pollVars, client, session_id, fn,
                    found, crawler,
                    settings, modified, cookie, nextSid, regVars, clockVars, engine,
                    nextCrawl, bootVars, sweepVars, shutVars, histVars >>

\* the response of a job endpoint is sent; a written session is sent back as the
\* client's cookie
Reply(t) ==
    /\ Alive
    /\ pc[t] \in Responses
    /\ SendCookie(t)
    /\ due' = IF pc[t] = "loaded" THEN [due EXCEPT ![client[t]] = TRUE] ELSE due
    /\ EndRequest(t)
    /\ UNCHANGED << scriptVars, owner, stored, held, guest_crawls, patterns, logged_out, fn, found,
                    nextSid, regVars, clockVars, engine, dbVars, bootVars, sweepVars,
                    shutVars, histVars >>

(***************************************************************************)
(* The status poll and the settings it applies.                            *)
(***************************************************************************)
\* request.args.get(name, type=int): None without the argument, else its integer
Cursors == { << >> } \cup { << k >> : k \in MinCursor..MaxCursor }

\* the slice list[k:] of Python: from position k on (the first position is 0); a
\* negative k counts from the end of the list
SliceFrom(list, k) ==
    LET start == IF k >= 0
                 THEN (IF k < Len(list) THEN k ELSE Len(list))
                 ELSE (IF Len(list) + k > 0 THEN Len(list) + k ELSE 0)
    IN  SubSeq(list, start + 1, Len(list))

\* the slicing applied although the session asks for a full refresh
Sliced_AlwaysCursor(list, cursor, force_full) ==
    IF cursor # << >> THEN SliceFrom(list, cursor[1]) ELSE list

\* lines 701-707: the list is sliced when the request carries the cursor and the
\* session does not ask for a full refresh
Sliced(list, cursor, force_full) ==
    IF ~force_full /\ cursor # << >> THEN SliceFrom(list, cursor[1]) ELSE list

\* lines 710-716 and filter_issues_by_exclusion_patterns (340-372): the issues
\* whose URL no exclusion pattern matches
Filtered(issues, excluded) == SelectSeq(issues, LAMBDA i : i \notin excluded)

\* /api/crawl_status, lines 685-718: the status of the session's engine, its lists
\* sliced by the cursors unless session.pop('force_full_refresh') gave True
Poll(t, url_since, link_since, issue_since) ==
    /\ Alive
    /\ pc[t] = "ready"
    /\ job[t] = NoCrawl
    /\ crawler[t] # NoObj
    /\ settings[t] # NoObj
    /\ status_data' = [status_data EXCEPT ![t] =
           [url_since   |-> url_since,
            link_since  |-> link_since,
            issue_since |-> issue_since,
            force_full  |-> refresh[t],
            urls   |-> Sliced(held[crawler[t]].crawl_results, url_since, refresh[t]),
            links  |-> Sliced(held[crawler[t]].all_links, link_since, refresh[t]),
            issues |-> Filtered(Sliced(held[crawler[t]].detected_issues, issue_since,
                                       refresh[t]),
                                patterns[settings[t]])]]
    /\ refresh' = [refresh EXCEPT ![t] = FALSE]
    /\ modified' = [modified EXCEPT ![t] = modified[t] \/ refresh[t]]
    /\ due' = [due EXCEPT ![client[t]] = FALSE]
    /\ pc' = [pc EXCEPT ![t] = "polled"]
    /\ UNCHANGED << scriptVars, owner, stored, held, force_full_refresh, guest_crawls, patterns,
                    logged_out, account, after_load, crawls_from_ip, was_running, before, user_id, client,
                    session_id, job, fn,
                    found, crawler, settings, cookie, nextSid, regVars, clockVars, engine,
                    dbVars, bootVars, sweepVars, shutVars, histVars >>

\* /api/save_settings, lines 915-919: the session's settings get the exclusion
\* patterns of the request
SaveSettings(t, excluded) ==
    /\ Alive
    /\ pc[t] = "ready"
    /\ job[t] = NoCrawl
    /\ settings[t] # NoObj
    /\ patterns' = [patterns EXCEPT ![settings[t]] = excluded]
    /\ pc' = [pc EXCEPT ![t] = "ok"]
    /\ UNCHANGED << scriptVars, owner, stored, held, force_full_refresh, due, guest_crawls, logged_out,
                    account,
                    pollVars, client, session_id, job, fn, found, crawler, settings,
                    modified, cookie, nextSid, regVars, clockVars, engine, dbVars, bootVars,
                    sweepVars, shutVars, histVars >>

(***************************************************************************)
(* The guest limit of /api/start_crawl.  All guests have the one client IP *)
(* and every logged crawl is less than 24 hours old.                       *)
(***************************************************************************)
\* the test of line 645 with the limit one lower
LimitReached_OneLess(n) == n >= GuestLimit - 1

\* line 645: crawls_from_ip >= 3
LimitReached(n) == n >= GuestLimit

\* lines 633-649: start_crawl of a guest session has its engine and settings,
\* reads the number of guest crawls logged for the IP and rejects the request when
\* the limit is reached
GuestCheck(t) ==
    /\ Alive
    /\ pc[t] = "ready"
    /\ job[t] = NoCrawl
    /\ crawler[t] # NoObj /\ settings[t] # NoObj
    /\ UserOf(client[t]) = NoUser
    /\ crawls_from_ip' = [crawls_from_ip EXCEPT ![t] = guest_crawls]
    /\ pc' = [pc EXCEPT ![t] = IF LimitReached(guest_crawls) THEN "limit" ELSE "counted"]
    /\ UNCHANGED << scriptVars, jobVars, refresh, status_data, after_load, was_running, before, user_id, client,
                    session_id, job, fn,
                    found, crawler, settings, modified, cookie, nextSid, regVars, clockVars,
                    engine, dbVars, bootVars, sweepVars, shutVars, histVars >>

\* lines 652-662: the guest crawl is logged and the engine is started, without a
\* row in the crawl database; an engine that is running refuses the start
GuestStart(t) ==
    /\ Alive
    /\ pc[t] = "counted"
    /\ guest_crawls < MaxLogged
    /\ guest_crawls' = guest_crawls + 1
    /\ IF engine[crawler[t]].is_running
       THEN UNCHANGED << engine, held >>
       ELSE /\ engine' = [engine EXCEPT ![crawler[t]] =
                   [is_running |-> TRUE, crawl_id |-> NoCrawl, db_save_enabled |-> FALSE]]
            /\ held' = [held EXCEPT ![crawler[t]] = NewWorkingState]
    /\ pc' = [pc EXCEPT ![t] = "ok"]
    /\ UNCHANGED << scriptVars, owner, stored, force_full_refresh, due, patterns, logged_out, account,
                    pollVars,
                    client, session_id, job, fn, found, crawler, settings, modified, cookie,
                    nextSid, regVars, clockVars, dbVars, bootVars, sweepVars, shutVars,
                    histVars >>

(***************************************************************************)
(* Logout.                                                                 *)
(***************************************************************************)
\* /api/logout, lines 561-565: session.clear(); the response takes the session id
\* and the flag out of the client's cookie
Logout(t) ==
    /\ Alive
    /\ pc[t] = "ready"
    /\ job[t] = NoCrawl
    /\ crawler[t] = NoObj /\ settings[t] = NoObj
    /\ cookie' = [cookie EXCEPT ![client[t]] = NoSid]
    /\ force_full_refresh' = [force_full_refresh EXCEPT ![client[t]] = FALSE]
    /\ logged_out' = IF session_id[t] = NoSid THEN logged_out
                     ELSE logged_out \cup {session_id[t]}
    /\ EndRequest(t)
    /\ UNCHANGED << scriptVars, owner, stored, held, due, guest_crawls, patterns, account, fn, found,
                    nextSid,
                    regVars, clockVars, engine, dbVars, bootVars, sweepVars, shutVars,
                    histVars >>

(***************************************************************************)
(* The debug endpoints, which list the registry.                           *)
(***************************************************************************)
\* /api/debug/memory, lines 822-828, and /api/debug/memory/profile, lines 855-858:
\* the lock is taken and the loop over crawler_instances.items() begins
DebugEnter(t) ==
    /\ Alive
    /\ pc[t] = "ready"
    /\ job[t] = NoCrawl
    /\ crawler[t] = NoObj /\ settings[t] = NoObj
    /\ LockFree(t)
    /\ instances_lock' = t
    /\ pc' = [pc EXCEPT ![t] = "iterating"]
    /\ UNCHANGED << scriptVars, jobVars, pollVars, client, session_id, job, fn, found, crawler, settings,
                    modified, cookie, nextSid, crawler_instances, nextObj, clockVars, engine,
                    dbVars, bootVars, sweepVars, shutVars, histVars >>

\* lines 828-847 (858-881): the loop is over, the lock is left and the response sent
DebugLeave(t) ==
    /\ Alive
    /\ pc[t] = "iterating"
    /\ instances_lock' = IF instances_lock = t THEN NoThread ELSE instances_lock
    /\ SendCookie(t)
    /\ EndRequest(t)
    /\ UNCHANGED << scriptVars, owner, stored, held, due, guest_crawls, patterns, logged_out, fn, found,
                    nextSid, crawler_instances, nextObj, clockVars, engine, dbVars, bootVars,
                    sweepVars, shutVars, histVars >>

(***************************************************************************)
(* Login and guest login.  The tier of a session goes with its user: a     *)
(* guest has tier guest, an account its own tier.                          *)
(***************************************************************************)
\* /api/login, lines 532-547, and /api/guest-login, lines 549-559: the session gets
\* the user_id and tier of account u (of a guest: None and 'guest'); every other
\* key of the session, 'session_id' among them, stays
Login(t, u) ==
    /\ Alive
    /\ pc[t] = "ready"
    /\ job[t] = NoCrawl
    /\ crawler[t] = NoObj /\ settings[t] = NoObj
    /\ user_id' = [user_id EXCEPT ![t] = u]
    /\ modified' = [modified EXCEPT ![t] = TRUE]
    /\ pc' = [pc EXCEPT ![t] = "ok"]
    /\ UNCHANGED << scriptVars, jobVars, refresh, status_data, after_load, crawls_from_ip, was_running,
                    before, client, session_id, job, fn, found, crawler, settings, cookie,
                    nextSid, regVars, clockVars, engine, dbVars, bootVars, sweepVars,
                    shutVars, histVars >>

(***************************************************************************)
(* The cleanup thread: cleanup_loop and cleanup_old_instances.             *)
(***************************************************************************)
\* the comparison of line 206 with >= for >
Expired_AtThreshold(e, n) == n - e.last_accessed >= TimeoutMinutes

\* line 206: now - instance_data['last_accessed'] > timeout
Expired(e, n) == n - e.last_accessed > TimeoutMinutes

\* the loop of lines 205-207 left at the first expired entry
RECURSIVE ToRemove_FirstOnly(_, _)
ToRemove_FirstOnly(d, n) ==
    IF d = << >> THEN << >>
    ELSE IF Expired(Head(d), n) THEN << Head(d).sid >>
    ELSE ToRemove_FirstOnly(Tail(d), n)

\* lines 204-207: the keys of the expired entries, in the order of the dict
RECURSIVE ToRemove(_, _)
ToRemove(d, n) ==
    IF d = << >> THEN << >>
    ELSE IF Expired(Head(d), n) THEN << Head(d).sid >> \o ToRemove(Tail(d), n)
    ELSE ToRemove(Tail(d), n)

\* lines 225, 200-201: the sleep of five minutes ends, the sweep reads its `now`
CleanupWake ==
    /\ Alive
    /\ cpc = "sleep"
    /\ clock >= wake
    /\ now' = clock
    /\ wake' = 0
    /\ cpc' = "acquire"
    /\ UNCHANGED << scriptVars, jobVars, sessions_to_remove, sweepSeen, stopRaised, stopAsked, reqVars,
                    cookie, nextSid, regVars, clockVars, engine, dbVars, bootVars,
                    shutVars, histVars >>

\* the loop body without its stop request
NextEntry_NoStop(l) == IF l = << >> THEN "done" ELSE "del"

\* lines 209-216: the loop body of one session begins with its stop request; the
\* loop ends when the list is exhausted
NextEntry(l) == IF l = << >> THEN "done" ELSE "stop"

\* lines 203-207: take the lock, collect the expired sessions
CleanupScan ==
    /\ Alive
    /\ cpc = "acquire"
    /\ LockFree(CleanupThread)
    /\ instances_lock' = CleanupThread
    /\ sessions_to_remove' = ToRemove(crawler_instances, now)
    /\ sweepSeen' = crawler_instances
    /\ stopRaised' = {}
    /\ stopAsked' = {}
    /\ cpc' = NextEntry(sessions_to_remove')
    /\ UNCHANGED << scriptVars, jobVars, wake, now, reqVars, cookie, nextSid, crawler_instances, nextObj,
                    clockVars, engine, dbVars, bootVars, shutVars, histVars >>

\* lines 212-215 without the try: what stop_crawl() raises leaves the sweep
AfterStop_Uncaught(raised) == IF raised THEN "returned" ELSE "del"

\* lines 212-216: stop_crawl() of the entry's engine returns or raises; the bare
\* except swallows what it raises, so the del of line 216 follows either way
AfterStop(raised) == "del"

\* lines 210-215: the stop request for the engine of the next session of the list
CleanupStop(raised) ==
    /\ Alive
    /\ cpc = "stop"
    /\ LET s == Head(sessions_to_remove)
           o == Item(crawler_instances, s).crawler
       IN /\ stopAsked' = stopAsked \cup {o}
          /\ stopRaised' = IF raised THEN stopRaised \cup {o} ELSE stopRaised
          /\ engine' = IF raised THEN engine ELSE [engine EXCEPT ![o] = Stopped(@)]
          /\ crawls' = IF raised THEN crawls ELSE Ended(crawls, engine[o], "completed")
    /\ cpc' = AfterStop(raised)
    /\ IF cpc' = "returned"
       THEN \* an exception leaves the with block and the function
            instances_lock' = NoThread /\ sessions_to_remove' = << >>
       ELSE UNCHANGED << instances_lock, sessions_to_remove >>
    /\ UNCHANGED << scriptVars, jobVars, wake, now, sweepSeen, reqVars, cookie, nextSid, crawler_instances,
                    nextObj, clockVars, nextCrawl, bootVars, shutVars, histVars >>

\* line 216: del crawler_instances[session_id]
CleanupDel ==
    /\ Alive
    /\ cpc = "del"
    /\ LET s == Head(sessions_to_remove)
       IN /\ crawler_instances' = DelItem(crawler_instances, s)
          /\ evicted' = [evicted EXCEPT ![s] = @ + 1]
    /\ sessions_to_remove' = Tail(sessions_to_remove)
    /\ cpc' = NextEntry(sessions_to_remove')
    /\ UNCHANGED << scriptVars, jobVars, wake, now, sweepSeen, stopRaised, stopAsked, reqVars, cookie, nextSid,
                    instances_lock, nextObj, clockVars, engine, dbVars, bootVars,
                    shutVars, built, scope >>

\* lines 218-219: the list is exhausted; the sweep leaves the lock and returns
CleanupReturn ==
    /\ Alive
    /\ cpc = "done"
    /\ instances_lock' = IF instances_lock = CleanupThread THEN NoThread ELSE instances_lock
    /\ cpc' = "returned"
    /\ UNCHANGED << scriptVars, jobVars, wake, now, sessions_to_remove, sweepSeen, stopRaised, stopAsked,
                    reqVars, cookie, nextSid, crawler_instances, nextObj, clockVars,
                    engine, dbVars, bootVars, shutVars, histVars >>

\* line 225: the time at which a sleep that begins at c is over
SleepUntil(c) == IF c + SleepMinutes > EndOfTime THEN EndOfTime ELSE c + SleepMinutes

\* cleanup_loop without its loop: the thread ends after its first sweep
AfterSweep_Once == "ended"

\* line 224: while True, so a sweep that returned or raised is followed by the
\* next sleep
AfterSweep == "sleep"

\* cleanup_loop without the try of lines 226-229: what a sweep raises ends the
\* thread
AfterRaise_Uncaught == "ended"

\* lines 226-229: what cleanup_old_instances raises is caught in cleanup_loop
AfterRaise == "caught"

\* lines 203-219: a statement of the sweep outside the try of lines 212-215 raises
\* while the lock is held (the del of line 216, a print of lines 210 or 219); the
\* with block releases the lock on the way out
CleanupRaise ==
    /\ Alive
    /\ cpc \in {"stop", "del", "done"}
    /\ instances_lock' = IF instances_lock = CleanupThread THEN NoThread ELSE instances_lock
    /\ sessions_to_remove' = << >>
    /\ cpc' = AfterRaise
    /\ UNCHANGED << scriptVars, jobVars, wake, now, sweepSeen, stopRaised, stopAsked, reqVars, cookie,
                    nextSid, crawler_instances, nextObj, clockVars, engine, dbVars, bootVars,
                    shutVars, histVars >>

\* lines 224-229: back in cleanup_loop, which sleeps five minutes again
CleanupSleep ==
    /\ Alive
    /\ cpc \in {"returned", "caught"}
    /\ cpc' = AfterSweep
    /\ wake' = SleepUntil(clock)
    /\ now' = 0
    /\ sweepSeen' = << >>
    /\ stopRaised' = {}
    /\ stopAsked' = {}
    /\ UNCHANGED << scriptVars, jobVars, sessions_to_remove, reqVars, cookie, nextSid, regVars, clockVars,
                    engine, dbVars, bootVars, shutVars, histVars >>

(***************************************************************************)
(* The main thread: main(), recover_crashed_crawls.  A termination signal  *)
(* interrupts the main thread, so it advances only while no handler runs.  *)
(***************************************************************************)
\* a crashed crawl marked as paused
CrashedStatus_Paused == "paused"

\* line 1406: the status recover_crashed_crawls gives a crashed crawl
CrashedStatus == "failed"

\* line 1399: get_crashed_crawls() returns the running rows, or raises (caught, 1410)
RecoverScan(ok) ==
    /\ Alive /\ spc = "none"
    /\ mainpc = "recover"
    /\ IF ok
       THEN recover' = GetCrashedCrawls(crawls) /\ mainpc' = "recover_loop"
       ELSE recover' = << >> /\ mainpc' = MainAfter("recover")
    /\ recoverFault' = ~ok
    /\ UNCHANGED << scriptVars, jobVars, bootStatus, reqVars, cookie, nextSid, regVars, clockVars, engine,
                    dbVars, sweepVars, shutVars, histVars >>

\* lines 1405-1406, 1410: set_crawl_status(crawl['id'], 'failed') writes the row,
\* returns False without writing, or raises, which ends the scan
RecoverMark(outcome) ==
    /\ Alive /\ spc = "none"
    /\ mainpc = "recover_loop"
    /\ recover # << >>
    /\ crawls' = IF outcome = "ok"
                 THEN SetCrawlStatus(crawls, Head(recover), CrashedStatus)
                 ELSE crawls
    /\ IF outcome = "raise"
       THEN recover' = << >> /\ mainpc' = MainAfter("recover")
       ELSE recover' = Tail(recover) /\ UNCHANGED mainpc
    /\ recoverFault' = (recoverFault \/ outcome # "ok")
    /\ UNCHANGED << scriptVars, jobVars, bootStatus, nextCrawl, reqVars, cookie, nextSid, regVars, clockVars,
                    engine, sweepVars, shutVars, histVars >>

\* line 1409: every row of the list was visited
RecoverReturn ==
    /\ Alive /\ spc = "none"
    /\ mainpc = "recover_loop"
    /\ recover = << >>
    /\ mainpc' = MainAfter("recover")
    /\ UNCHANGED << scriptVars, jobVars, recover, bootStatus, recoverFault, reqVars, cookie, nextSid, regVars,
                    clockVars, engine, dbVars, sweepVars, shutVars, histVars >>

\* lines 1454, 221-233: start_cleanup_thread(); the loop begins with its sleep
StartCleanupThread ==
    /\ Alive /\ spc = "none"
    /\ mainpc = "start_cleanup"
    /\ mainpc' = MainAfter("start_cleanup")
    /\ cpc' = "sleep"
    /\ wake' = SleepUntil(clock)
    /\ UNCHANGED << scriptVars, jobVars, recover, bootStatus, recoverFault, now, sessions_to_remove, sweepSeen,
                    stopRaised, stopAsked, reqVars, cookie, nextSid, regVars, clockVars, engine,
                    dbVars, shutVars, histVars >>

\* line 1479: serve(app, ...), requests are accepted from here on
Serve ==
    /\ Alive /\ spc = "none"
    /\ mainpc = "start_server"
    /\ mainpc' = MainAfter("start_server")
    /\ UNCHANGED << scriptVars, jobVars, recover, bootStatus, recoverFault, reqVars, cookie, nextSid, regVars, clockVars,
                    engine, dbVars, sweepVars, shutVars, histVars >>

(***************************************************************************)
(* graceful_shutdown, the handler of SIGINT and SIGTERM.  It runs in the   *)
(* main thread while the request threads and the cleanup thread go on.     *)
(***************************************************************************)
\* line 1424: crawler.is_running and crawler.crawl_id and crawler.db_save_enabled
Eligible(e) == e.is_running /\ e.crawl_id # NoCrawl /\ e.db_save_enabled

\* lines 1447-1448, 1413: a termination signal arrives
Signal ==
    /\ Alive
    /\ spc = "none"
    /\ spc' = "acquire"
    /\ UNCHANGED << scriptVars, jobVars, snapshot, saved, eligible, shutFailed, visited, reqVars, cookie,
                    nextSid, regVars, clockVars, engine, dbVars, bootVars, sweepVars,
                    histVars >>

\* lines 1421-1422: take the lock, copy the items of the registry
ShutSnapshot ==
    /\ spc = "acquire"
    /\ LockFree(MainThread)
    /\ instances_lock' = MainThread
    /\ snapshot' = crawler_instances
    /\ spc' = "loop"
    /\ UNCHANGED << scriptVars, jobVars, saved, eligible, shutFailed, visited, reqVars, cookie, nextSid,
                    crawler_instances, nextObj, clockVars, engine, dbVars, bootVars,
                    sweepVars, histVars >>

\* the loop left with a break after the entry at hand
AfterEntry_Break(l) == << >>

\* line 1423: the loop goes on with the items of the copy after the one at hand
AfterEntry(l) == Tail(l)

\* the handler leaving its loop whatever is left of the copy
LoopOver_Anytime(l) == TRUE

\* line 1423: the loop is over when no item of the copy is left
LoopOver(l) == l = << >>

\* lines 1423-1425: the next item of the copy; an engine that is not eligible is passed
ShutVisit ==
    /\ spc = "loop"
    /\ snapshot # << >>
    /\ LET e == engine[Head(snapshot).crawler]
       IN IF Eligible(e)
          THEN /\ spc' = "batch"
               /\ eligible' = eligible \cup {e.crawl_id}
               /\ UNCHANGED snapshot
          ELSE /\ snapshot' = AfterEntry(snapshot)
               /\ UNCHANGED << spc, eligible >>
    /\ visited' = visited \cup {Head(snapshot).crawler}
    /\ UNCHANGED << scriptVars, jobVars, saved, shutFailed, reqVars, cookie, nextSid, regVars, clockVars,
                    engine, dbVars, bootVars, sweepVars, histVars >>

\* lines 1426-1432 without the inner try: what a save step raises leaves the loop
\* and is caught at line 1436
AfterSaveError_LeavesLoop == "error"

\* lines 1426-1432: where the handler goes after a save step of an entry raised:
\* the except of line 1431 ends this entry, the loop goes on with the next
AfterSaveError == "loop"

\* one save step of the entry being saved: it returns (for set_crawl_status: True),
\* it returns False, or it raises
ShutStep(at, done, next, outcome) ==
    /\ spc = at
    /\ LET id == engine[Head(snapshot).crawler].crawl_id
       IN /\ saved' = IF outcome = "ok" /\ id \in CrawlIds
                      THEN [saved EXCEPT ![id] = @ \cup {done}] ELSE saved
          /\ shutFailed' = IF outcome # "ok" /\ id \in CrawlIds
                           THEN shutFailed \cup {id} ELSE shutFailed
    /\ spc' = IF outcome = "raise" THEN AfterSaveError ELSE next
    /\ snapshot' = IF spc' = "loop" THEN AfterEntry(snapshot)
                   ELSE IF spc' = "error" THEN << >> ELSE snapshot
    /\ UNCHANGED << scriptVars, jobVars, eligible, visited, reqVars, cookie, nextSid, regVars, clockVars,
                    engine, nextCrawl, bootVars, sweepVars, histVars >>

\* line 1427: crawler._save_batch_to_db(force=True)
ShutSaveBatch(ok) ==
    /\ ShutStep("batch", "batch", "queue", IF ok THEN "ok" ELSE "raise")
    /\ UNCHANGED crawls

\* line 1428: crawler._save_queue_checkpoint()
ShutSaveQueue(ok) ==
    /\ ShutStep("queue", "queue", "status", IF ok THEN "ok" ELSE "raise")
    /\ UNCHANGED crawls

\* line 1430: set_crawl_status(crawler.crawl_id, 'paused')
ShutSetStatus(outcome) ==
    /\ ShutStep("status", "paused", "loop", outcome)
    /\ crawls' = IF outcome = "ok"
                 THEN SetCrawlStatus(crawls, engine[Head(snapshot).crawler].crawl_id, "paused")
                 ELSE crawls

\* lines 1434-1437: the loop is over, or line 1436 caught what left it; the lock is left
ShutRelease ==
    /\ \/ spc = "loop" /\ LoopOver(snapshot)
       \/ spc = "error"
    /\ instances_lock' = IF instances_lock = MainThread THEN NoThread ELSE instances_lock
    /\ spc' = "exit"
    /\ UNCHANGED << scriptVars, jobVars, snapshot, saved, eligible, shutFailed, visited, reqVars, cookie,
                    nextSid, crawler_instances, nextObj, clockVars, engine, dbVars,
                    bootVars, sweepVars, histVars >>

\* lines 1439-1441: sys.exit(0), the process ends
ShutExit ==
    /\ spc = "exit"
    /\ spc' = "exited"
    /\ UNCHANGED << scriptVars, jobVars, snapshot, saved, eligible, shutFailed, visited, reqVars, cookie,
                    nextSid, regVars, clockVars, engine, dbVars, bootVars, sweepVars,
                    histVars >>

\* lines 1427-1430: a save call of the entry at hand does not return; the handler
\* has no deadline for it and waits, the lock held
ShutHang ==
    /\ spc \in {"batch", "queue", "status"}
    /\ spc' = "hung"
    /\ UNCHANGED << scriptVars, jobVars, snapshot, saved, eligible, shutFailed, visited, reqVars, cookie,
                    nextSid, regVars, clockVars, engine, dbVars, bootVars, sweepVars,
                    histVars >>

\* lines 1447-1448, 1421: a second termination signal arrives while the handler is
\* in its loop; the handler runs again on top of itself in the main thread and
\* waits at `with instances_lock:` for the lock its own interrupted run holds
SignalNested ==
    /\ spc \in {"loop", "batch", "queue", "status"}
    /\ instances_lock = MainThread
    /\ spc' = "deadlock"
    /\ UNCHANGED << scriptVars, jobVars, snapshot, saved, eligible, shutFailed, visited, reqVars, cookie,
                    nextSid, regVars, clockVars, engine, dbVars, bootVars, sweepVars,
                    histVars >>

(***************************************************************************)
(* Specifications.                                                         *)
(***************************************************************************)
RequestNext ==
    \/ \E t \in Threads, c \in Clients : BeginRequest(t, c)
    \/ \E t \in Threads, f \in {"crawler", "settings"} : EnterAccessor(t, f)
    \/ \E t \in Threads : LeaveAccessor(t)
    \/ \E t \in Threads : Respond(t)

EngineNext ==
    \/ \E t \in Threads, persist \in BOOLEAN : StartCrawl(t, persist)
    \/ \E t \in Threads : StopCrawl(t)
    \/ \E o \in Objs : EngineDone(o)

SweepNext ==
    \/ CleanupWake
    \/ CleanupScan
    \/ \E raised \in BOOLEAN : CleanupStop(raised)
    \/ CleanupDel
    \/ CleanupReturn
    \/ CleanupSleep

BootNext ==
    \/ \E ok \in BOOLEAN : RecoverScan(ok)
    \/ \E outcome \in {"ok", "false", "raise"} : RecoverMark(outcome)
    \/ RecoverReturn
    \/ StartCleanupThread
    \/ Serve

ShutdownNext ==
    \/ Signal
    \/ ShutSnapshot
    \/ ShutVisit
    \/ \E ok \in BOOLEAN : ShutSaveBatch(ok)
    \/ \E ok \in BOOLEAN : ShutSaveQueue(ok)
    \/ \E outcome \in {"ok", "false", "raise"} : ShutSetStatus(outcome)
    \/ ShutRelease
    \/ ShutExit

ClockNext == \E later \in Times : Tick(later)

\* the registry under requests and sweeps, from the state main() reaches with an
\* empty crawl database
Next == RequestNext \/ SweepNext \/ ClockNext

Spec == InitServing /\ [][Next]_vars

\* the process from its start: crash recovery, then the cleanup thread and the
\* server with its requests
BootSpecNext == BootNext \/ RequestNext

BootSpec == Init /\ [][BootSpecNext]_vars

\* the serving process until a termination signal ends it; thread t serves
\* client t, whose requests start crawls
ShutdownSpecNext ==
    \/ \E t \in Threads, c \in Clients : c = t /\ BeginRequest(t, c)
    \/ \E t \in Threads : EnterAccessor(t, "crawler")
    \/ \E t \in Threads : LeaveAccessor(t)
    \/ \E t \in Threads : Respond(t)
    \/ \E t \in Threads, persist \in BOOLEAN : StartCrawl(t, persist)
    \/ \E o \in Objs : EngineDone(o)
    \/ ShutdownNext

ShutdownSpec == InitServing /\ [][ShutdownSpecNext]_vars

\* the cleanup thread and the shutdown handler side by side; thread t serves
\* client t, whose requests start persisted crawls, and the clock is read again
\* only when more than the idle threshold has passed
SweepDrainNext ==
    \/ \E t \in Threads, c \in Clients : c = t /\ BeginRequest(t, c)
    \/ \E t \in Threads : EnterAccessor(t, "crawler")
    \/ \E t \in Threads : LeaveAccessor(t)
    \/ \E t \in Threads : Respond(t)
    \/ \E t \in Threads : StartCrawl(t, TRUE)
    \/ \E later \in Times : later - clock > TimeoutMinutes /\ Tick(later)
    \/ SweepNext
    \/ ShutdownNext

SweepDrainSpec == InitServing /\ [][SweepDrainNext]_vars

\* every user of the registry side by side: the accessors, the debug endpoints,
\* the cleanup thread and the shutdown handler; thread t serves client t, the
\* requests of thread 1 start persisted crawls, and the clock is read again only
\* when more than the idle threshold has passed
MapNext ==
    \/ \E t \in Threads, c \in Clients : c = t /\ BeginRequest(t, c)
    \/ \E t \in Threads, f \in {"crawler", "settings"} : EnterAccessor(t, f)
    \/ \E t \in Threads : LeaveAccessor(t)
    \/ \E t \in Threads : Respond(t)
    \/ \E t \in Threads : DebugEnter(t)
    \/ \E t \in Threads : DebugLeave(t)
    \/ StartCrawl(1, TRUE)
    \/ \E later \in Times : later - clock > TimeoutMinutes /\ Tick(later)
    \/ SweepNext
    \/ ShutdownNext

MapSpec == InitServing /\ [][MapNext]_vars

\* the drain with save calls that may not return and with repeated signals
DrainLiveNext ==
    \/ \E t \in Threads, c \in Clients : c = t /\ BeginRequest(t, c)
    \/ \E t \in Threads : EnterAccessor(t, "crawler")
    \/ \E t \in Threads : LeaveAccessor(t)
    \/ \E t \in Threads : Respond(t)
    \/ \E t \in Threads : StartCrawl(t, TRUE)
    \/ ShutdownNext
    \/ ShutHang
    \/ SignalNested

\* a request that holds the lock leaves it; the main thread is scheduled and gets
\* the lock when it is free again and again; a save call that does not hang
\* returns or raises
DrainFairness ==
    /\ \A t \in Threads : WF_vars(LeaveAccessor(t))
    /\ SF_vars(ShutSnapshot)
    /\ WF_vars(ShutVisit)
    /\ WF_vars(\E ok \in BOOLEAN : ShutSaveBatch(ok))
    /\ WF_vars(\E ok \in BOOLEAN : ShutSaveQueue(ok))
    /\ WF_vars(\E outcome \in {"ok", "false", "raise"} : ShutSetStatus(outcome))
    /\ WF_vars(ShutRelease)
    /\ WF_vars(ShutExit)

DrainLiveSpec == InitServing /\ [][DrainLiveNext]_vars /\ DrainFairness

\* the serving process with one paused or completed crawl left by an earlier run,
\* which has an owner or was started by a guest
InitJobs ==
    \E own \in Accounts \cup {NoUser}, st \in {"paused", "completed"} :
        StartWith("serving", [i \in CrawlIds |-> IF i = 1 THEN st ELSE Absent], 0,
                  [i \in CrawlIds |-> IF i = 1 THEN own ELSE NoUser])

\* the job endpoints; thread t serves client t, whose requests load, resume,
\* archive and delete the stored crawls
JobNext ==
    \/ \E t \in Threads, c \in Clients : c = t /\ BeginRequest(t, c)
    \/ \E t \in Threads : EnterAccessor(t, "crawler")
    \/ \E t \in Threads : LeaveAccessor(t)
    \/ \E t \in Threads : Respond(t)
    \/ \E t \in Threads, id \in CrawlIds : LoadCheck(t, id)
    \/ \E t \in Threads : LoadInject(t)
    \/ \E t \in Threads, id \in CrawlIds : ResumeCrawl(t, id)
    \/ \E t \in Threads, id \in CrawlIds : ArchiveCrawl(t, id)
    \/ \E t \in Threads, id \in CrawlIds : DeleteCrawl(t, id)
    \/ \E t \in Threads : Reply(t)

JobSpec == InitJobs /\ [][JobNext]_vars

\* the serving process with crawls a guest or the first user left: the first crawl
\* is paused, the second, if stored, is a guest's completed crawl
InitLoads ==
    \E db \in [CrawlIds -> {"paused", "completed", Absent}],
       own \in [CrawlIds -> {NoUser, 1}] :
        /\ db[1] = "paused"
        /\ \A i \in CrawlIds : i > 1 => db[i] # "paused" /\ own[i] = NoUser
        /\ StartWith("serving", db, 0, own)

\* crawls started, loaded and resumed; thread t serves client t
LoadNext ==
    \/ \E t \in Threads, c \in Clients : c = t /\ BeginRequest(t, c)
    \/ \E t \in Threads : EnterAccessor(t, "crawler")
    \/ \E t \in Threads : LeaveAccessor(t)
    \/ \E t \in Threads : Respond(t)
    \/ \E t \in Threads : StartCrawl(t, TRUE)
    \/ \E t \in Threads, id \in CrawlIds : LoadCheck(t, id)
    \/ \E t \in Threads : LoadInject(t)
    \/ \E t \in Threads, id \in CrawlIds : ResumeCrawl(t, id)
    \/ \E t \in Threads : Reply(t)

LoadSpec == InitLoads /\ [][LoadNext]_vars

\* the serving process with two completed crawls of the first user; the first
\* crawl has up to MaxLinks link records between the URLs of Urls
InitLinks ==
    \E n \in 0..MaxLinks : \E ls \in [1..n -> Urls \X Urls] :
        StartFrom("serving", [i \in CrawlIds |-> "completed"], 0, [i \in CrawlIds |-> 1],
                  [i \in CrawlIds |->
                      IF i = 1
                      THEN [Checkpoint(i) EXCEPT
                               !.links = [j \in 1..n |-> Link(ls[j][1], ls[j][2])]]
                      ELSE Checkpoint(i)])

\* crawls loaded into sessions; thread t serves client t
LinkNext ==
    \/ \E t \in Threads, c \in Clients : c = t /\ BeginRequest(t, c)
    \/ \E t \in Threads : EnterAccessor(t, "crawler")
    \/ \E t \in Threads : LeaveAccessor(t)
    \/ \E t \in Threads : Respond(t)
    \/ \E t \in Threads, id \in CrawlIds : LoadCheck(t, id)
    \/ \E t \in Threads : LoadInject(t)
    \/ \E t \in Threads : Reply(t)

LinkSpec == InitLinks /\ [][LinkNext]_vars

\* sessions that log in, as a guest or as an account, and use their settings;
\* thread t serves client t
AuthNext ==
    \/ \E t \in Threads, c \in Clients : c = t /\ BeginRequest(t, c)
    \/ \E t \in Threads, f \in {"crawler", "settings"} : EnterAccessor(t, f)
    \/ \E t \in Threads : LeaveAccessor(t)
    \/ \E t \in Threads : Respond(t)
    \/ \E t \in Threads, u \in Accounts \cup {NoUser} : Login(t, u)
    \/ \E t \in Threads : Reply(t)

AuthSpec == InitServing /\ [][AuthNext]_vars

\* the serving process with one completed crawl, of the first user or of the
\* second; the first user's cookie carries a session id
InitSteps ==
    \E own \in Accounts :
        StartWith("serving", [i \in CrawlIds |-> IF i = 1 THEN "completed" ELSE Absent], 1,
                  [i \in CrawlIds |-> IF i = 1 THEN own ELSE NoUser])

\* the load step by step beside the engine's crawl thread; both threads serve the
\* first user, whose requests start crawls, and the first thread loads stored ones
StepNext ==
    \/ \E t \in Threads : BeginRequest(t, 1)
    \/ \E t \in Threads : EnterAccessor(t, "crawler")
    \/ \E t \in Threads : LeaveAccessor(t)
    \/ \E t \in Threads : Respond(t)
    \/ \E t \in Threads : StartCrawl(t, FALSE)
    \/ \E o \in Objs : EngineAppend(o)
    \/ \E o \in Objs : EngineDone(o)
    \/ \E id \in CrawlIds : LoadCheck(1, id)
    \/ \E done \in BOOLEAN : LoadStop(1, done)
    \/ LoadRead(1, TRUE)
    \/ LoadResults(1)
    \/ LoadLinks(1, TRUE)
    \/ LoadIssues(1)
    \/ \E t \in Threads : Reply(t)

StepSpec == InitSteps /\ [][StepNext]_vars

\* the load step by step with reads and injections that raise; the first thread
\* serves the first user
FailNext ==
    \/ BeginRequest(1, 1)
    \/ EnterAccessor(1, "crawler")
    \/ LeaveAccessor(1)
    \/ Respond(1)
    \/ StartCrawl(1, FALSE)
    \/ \E o \in Objs : EngineAppend(o)
    \/ \E o \in Objs : EngineDone(o)
    \/ \E id \in CrawlIds : LoadCheck(1, id)
    \/ LoadStop(1, TRUE)
    \/ \E ok \in BOOLEAN : LoadRead(1, ok)
    \/ LoadResults(1)
    \/ \E ok \in BOOLEAN : LoadLinks(1, ok)
    \/ LoadIssues(1)
    \/ Reply(1)

FailSpec == InitSteps /\ [][FailNext]_vars

\* the serving process with the completed crawls of the first user, whose cookie
\* holds a session id
InitRefresh ==
    StartWith("serving", [i \in CrawlIds |-> "completed"], MaxOld, [i \in CrawlIds |-> 1])

\* the first user's browser loads crawls and polls the status with one since-index
\* for the three collections, with requests that overlap
RefreshNext ==
    \/ \E t \in Threads, c \in Clients : c = 1 /\ BeginRequest(t, c)
    \/ \E t \in Threads, f \in {"crawler", "settings"} : EnterAccessor(t, f)
    \/ \E t \in Threads : LeaveAccessor(t)
    \/ \E t \in Threads : Respond(t)
    \/ \E t \in Threads, id \in CrawlIds : LoadCheck(t, id)
    \/ \E t \in Threads : LoadInject(t)
    \/ \E t \in Threads, k \in Cursors : Poll(t, k, k, k)
    \/ \E t \in Threads : Reply(t)

RefreshSpec == InitRefresh /\ [][RefreshNext]_vars

\* the serving process with the completed crawls of the first user
InitPolls ==
    StartWith("serving", [i \in CrawlIds |-> "completed"], 0, [i \in CrawlIds |-> 1])

\* crawls loaded, settings saved and the status polled with every combination of
\* since-indexes; the requests of the first user are served one after the other by
\* the first thread
PollNext ==
    \/ \E t \in Threads, c \in Clients : t = 1 /\ c = 1 /\ BeginRequest(t, c)
    \/ \E t \in Threads, f \in {"crawler", "settings"} : EnterAccessor(t, f)
    \/ \E t \in Threads : LeaveAccessor(t)
    \/ \E t \in Threads : Respond(t)
    \/ \E t \in Threads, id \in CrawlIds : LoadCheck(t, id)
    \/ \E t \in Threads : LoadInject(t)
    \/ \E t \in Threads, us, ls, is \in Cursors : Poll(t, us, ls, is)
    \/ \E t \in Threads, excluded \in SUBSET { << "a" >> } : SaveSettings(t, excluded)
    \/ \E t \in Threads : Reply(t)

PollSpec == InitPolls /\ [][PollNext]_vars

\* guests of one client IP start crawls, with requests that overlap
GuestNext ==
    \/ \E t \in Threads, c \in Clients : c = NumClients /\ BeginRequest(t, c)
    \/ \E t \in Threads, f \in {"crawler", "settings"} : EnterAccessor(t, f)
    \/ \E t \in Threads : LeaveAccessor(t)
    \/ \E t \in Threads : GuestCheck(t)
    \/ \E t \in Threads : GuestStart(t)
    \/ \E t \in Threads : Reply(t)
    \/ \E o \in Objs : EngineDone(o)

GuestSpec == InitServing /\ [][GuestNext]_vars

\* sessions that are used and logged out while the cleanup thread sweeps; thread t
\* serves client t, and the clock is read again only when more than the idle
\* threshold has passed
LogoutNext ==
    \/ \E t \in Threads, c \in Clients : c = t /\ BeginRequest(t, c)
    \/ \E t \in Threads : EnterAccessor(t, "crawler")
    \/ \E t \in Threads : LeaveAccessor(t)
    \/ \E t \in Threads : Respond(t)
    \/ \E t \in Threads : Logout(t)
    \/ \E later \in Times : later - clock > TimeoutMinutes /\ Tick(later)
    \/ SweepNext

LogoutSpec == InitServing /\ [][LogoutNext]_vars

\* requests and sweeps while time passes without end; thread t serves client t
LiveNext ==
    \/ \E t \in Threads, c \in Clients : c = t /\ BeginRequest(t, c)
    \/ \E t \in Threads : EnterAccessor(t, "crawler")
    \/ \E t \in Threads : LeaveAccessor(t)
    \/ \E t \in Threads : Respond(t)
    \/ SweepNext
    \/ \E later \in Times \cup {EndOfTime} : Tick(later)

\* time passes; a request that holds the lock leaves it; the cleanup thread is
\* scheduled, gets the lock when it is free again and again, and the stop_crawl it
\* calls returns or raises
LiveFairness ==
    /\ WF_vars(\E later \in Times \cup {EndOfTime} : Tick(later))
    /\ \A t \in Threads : WF_vars(LeaveAccessor(t))
    /\ WF_vars(CleanupWake)
    /\ SF_vars(CleanupScan)
    /\ WF_vars(\E raised \in BOOLEAN : CleanupStop(raised))
    /\ WF_vars(CleanupDel)
    /\ WF_vars(CleanupReturn)
    /\ WF_vars(CleanupSleep)

LiveSpec == InitServing /\ [][LiveNext]_vars /\ LiveFairness

\* the same with sweeps that raise
RaiseNext == LiveNext \/ CleanupRaise

RaiseSpec == InitServing /\ [][RaiseNext]_vars /\ LiveFairness

(***************************************************************************)
(* Properties of the registry and of the sweep (Spec).                     *)
(***************************************************************************)
\* the entry of session s, or an entry of no session
EntryOf(d, s) == IF Has(d, s) THEN Item(d, s) ELSE NewEntry(NoSid, NoObj, 0)

\* the threads that run a request of session s
ThreadsOf(s) == { t \in Threads : session_id[t] = s }

\* C1: a WebCrawler and a SettingsManager are constructed for a session id only
\* while the registry holds no entry for it, so every entry the sweep has not
\* removed was constructed once, however the accessor calls of the session
\* interleave; and as long as no entry of the session was removed, every handle
\* the calls returned is the engine, or the settings, of that one entry.
C1_SingleConstruction ==
    \A s \in Sids :
        /\ built[s] = evicted[s] + (IF Has(crawler_instances, s) THEN 1 ELSE 0)
        /\ evicted[s] = 0 =>
              /\ built[s] <= 1
              /\ \A t \in ThreadsOf(s) :
                    /\ crawler[t] # NoObj =>
                          /\ Has(crawler_instances, s)
                          /\ crawler[t] = Item(crawler_instances, s).crawler
                    /\ settings[t] # NoObj =>
                          /\ Has(crawler_instances, s)
                          /\ settings[t] = Item(crawler_instances, s).settings

\* two requests of one session at once, one handed the engine and one the settings
\* of the entry that was constructed once
C1_Witness ==
    \E s \in Sids : \E t1, t2 \in ThreadsOf(s) :
        /\ t1 # t2
        /\ built[s] = 1
        /\ crawler[t1] # NoObj
        /\ settings[t2] # NoObj

\* no two items of the registry have the same key, engine or settings
OneEntryEach ==
    \A i, j \in DOMAIN crawler_instances :
        i # j => /\ crawler_instances[i].sid # crawler_instances[j].sid
                 /\ crawler_instances[i].crawler # crawler_instances[j].crawler
                 /\ crawler_instances[i].settings # crawler_instances[j].settings

\* requests of different sessions hold different engines and different settings
HandlesApart ==
    \A t1, t2 \in Threads :
        (pc[t1] # "idle" /\ pc[t2] # "idle" /\ session_id[t1] # session_id[t2]) =>
            /\ crawler[t1] # NoObj => crawler[t1] # crawler[t2]
            /\ settings[t1] # NoObj => settings[t1] # settings[t2]

\* a step that changes the entry of session b is the accessor of a request of b
\* leaving the lock, or the sweep deleting b
OnlyOwnEntry ==
    \A b \in Sids :
        EntryOf(crawler_instances', b) # EntryOf(crawler_instances, b) =>
            \/ \E t \in ThreadsOf(b) : pc[t] = "locked" /\ pc'[t] # "locked"
            \/ cpc = "del" /\ Head(sessions_to_remove) = b /\ cpc' # "del"

\* C2: the registry holds one entry per session id, no engine and no settings
\* object belongs to the entries of two session ids, requests of different
\* sessions never hold the same handle, and creating, refreshing or evicting the
\* entry of one session leaves the entry of every other session as it was.
C2_Isolation == [](OneEntryEach /\ HandlesApart) /\ [][OnlyOwnEntry]_vars

\* two sessions in the registry, each with a request holding its engine
C2_Witness ==
    /\ Len(crawler_instances) = 2
    /\ \E t1, t2 \in Threads :
        /\ session_id[t1] # session_id[t2]
        /\ crawler[t1] # NoObj /\ crawler[t2] # NoObj
        /\ crawler[t1] = Item(crawler_instances, session_id[t1]).crawler
        /\ crawler[t2] = Item(crawler_instances, session_id[t2]).crawler

\* the entries the sweep saw whose last_accessed was more than the threshold before
\* the sweep's `now`
SeenExpired ==
    { i \in DOMAIN sweepSeen : now - sweepSeen[i].last_accessed > TimeoutMinutes }

\* the entry the sweep saw at position i is still in the registry
StillPresent(i) ==
    \E j \in DOMAIN crawler_instances :
        /\ crawler_instances[j].sid = sweepSeen[i].sid
        /\ crawler_instances[j].crawler = sweepSeen[i].crawler

\* C3: when cleanup_old_instances has returned, no entry whose last_accessed was
\* more than one hour before the sweep's `now` is still in the registry.
C3_SweepRemovesExpired ==
    cpc = "returned" => \A i \in SeenExpired : ~StillPresent(i)

\* a sweep has returned that saw an expired entry
C3_Witness == cpc = "returned" /\ SeenExpired # {}

\* the sweep saw an entry idle for exactly m minutes
SeenIdle(m) == \E i \in DOMAIN sweepSeen : now - sweepSeen[i].last_accessed = m

\* C4: when the loop of a sweep is over, the registry holds exactly the entries
\* the sweep saw whose idle time is at most the threshold, each as it was (same
\* engine, settings and last_accessed) and in the same order: an entry is removed
\* if and only if it was idle for strictly more than 60 minutes.
C4_RemovesIffOverThreshold ==
    cpc = "done" =>
        crawler_instances =
            SelectSeq(sweepSeen, LAMBDA e : now - e.last_accessed <= TimeoutMinutes)

\* a sweep is over that removed an entry idle for 61 minutes and kept one idle for
\* 60 minutes
C4_Witness ==
    /\ cpc = "done"
    /\ SeenIdle(61) /\ SeenIdle(60)
    /\ Len(crawler_instances) = 1
    /\ now - crawler_instances[1].last_accessed = 60

\* a sweep is over that kept an entry idle for 59 minutes
C4_Kept59 == cpc = "done" /\ SeenIdle(59) /\ Len(crawler_instances) = Len(sweepSeen)

\* C6: the sweep deletes an entry only after it has called stop_crawl on the
\* engine of that entry, in the same sweep.
C6_StopBeforeDelete ==
    [][\A i \in DOMAIN crawler_instances :
          (cpc = "del" /\ crawler_instances[i].sid \notin Keys(crawler_instances'))
              => crawler_instances[i].crawler \in stopAsked]_vars

\* the sweep is about to delete an entry whose engine it asked to stop
C6_Witness ==
    /\ cpc = "del"
    /\ Item(crawler_instances, Head(sessions_to_remove)).crawler \in stopAsked

\* C7: when the stop_crawl of an entry raised during a sweep, the sweep still
\* ends with every expired entry it saw, that one included, asked to stop and
\* removed from the registry.
C7_StopErrorDoesNotAbort ==
    (cpc \in {"done", "returned"} /\ stopRaised # {}) =>
        \A i \in SeenExpired :
            /\ sweepSeen[i].crawler \in stopAsked
            /\ ~StillPresent(i)

\* a sweep over two expired entries is over; the stop of the first raised, the
\* stop of the second did not
C7_Witness ==
    /\ cpc = "done"
    /\ Cardinality(SeenExpired) = 2
    /\ stopRaised = {sweepSeen[1].crawler}
    /\ crawler_instances = << >>

\* C16: no thread holds instances_lock while it is in an engine call or a
\* database call: not the cleanup thread in stop_crawl, not the main thread in a
\* save call of the drain.
C16_LockOnlyForMapOps ==
    /\ cpc = "stop" => instances_lock # CleanupThread
    /\ spc \in {"batch", "queue", "status"} => instances_lock # MainThread

(***************************************************************************)
(* Crash recovery at process start (BootSpec).                             *)
(***************************************************************************)
\* the crawls whose row had status running when the process started
RunningAtBoot == { i \in CrawlIds : bootStatus[i] = "running" }

\* recover_crashed_crawls has just returned
Recovered == mainpc = MainAfter("recover")

\* the main thread is in recover_crashed_crawls
Recovering == mainpc \in {"recover", "recover_loop"}

ScanAlone ==
    Recovering =>
        /\ cpc = "off"
        /\ \A t \in Threads : pc[t] = "idle"
        /\ crawler_instances = << >>
        /\ nextObj = 0

\* the cleanup thread and the server run only after the scan has visited its list
ScanComplete == (cpc # "off" \/ mainpc = "serving") => (~Recovering /\ recover = << >>)

\* a step of the scan leaves the registry and the rows that were not running alone
ScanFrame ==
    Recovering =>
        /\ crawler_instances' = crawler_instances
        /\ \A i \in CrawlIds \ RunningAtBoot : crawls'[i] = crawls[i]

\* C9: recover_crashed_crawls has returned before the cleanup thread is started
\* and before a request is served; while it runs, the registry stays empty and
\* untouched, and the status of every job that was not running stays as it was.
C9_ScanBeforeServing == [](ScanAlone /\ ScanComplete) /\ [][ScanFrame]_vars

\* a request is being served after a scan that rewrote a running row and left a
\* completed row as it was
C9_Witness ==
    /\ mainpc = "serving"
    /\ \E t \in Threads : crawler[t] # NoObj
    /\ \E i, j \in CrawlIds :
          /\ bootStatus[i] = "running" /\ crawls[i] = "failed"
          /\ bootStatus[j] = "completed" /\ crawls[j] = "completed"

(***************************************************************************)
(* graceful_shutdown (ShutdownSpec).                                       *)
(***************************************************************************)
\* the three save steps of one entry
SaveSteps == {"batch", "queue", "paused"}

\* the jobs graceful_shutdown found running with persistence whose engine has
\* started no other crawl since (crawl ids are never used twice)
Drained == { id \in eligible : \E o \in Objs : engine[o].crawl_id = id }

SaveOrder ==
    \A id \in Drained :
        /\ "queue" \in saved[id] => "batch" \in saved[id]
        /\ "paused" \in saved[id] => "queue" \in saved[id]

\* when the handler leaves the lock it has visited every entry of the registry;
\* a job none of whose steps failed has all three done, a job one of whose steps
\* failed is not set to paused
DrainResult ==
    (spc # "exit" /\ spc' = "exit") =>
        /\ \A i \in DOMAIN crawler_instances : crawler_instances[i].crawler \in visited
        /\ \A id \in Drained :
              IF id \in shutFailed THEN "paused" \notin saved[id]
              ELSE saved[id] = SaveSteps

InDrain == spc \in {"loop", "batch", "queue", "status"}

\* the engines of the entries of a dict
CrawlersOf(d) == { d[i].crawler : i \in DOMAIN d }

\* the jobs of the drain for which the flush was called
Attempted == { id \in CrawlIds : "batch" \in saved[id] } \cup shutFailed

\* the handler leaves the lock after a step of some entry failed: every entry of
\* the registry was visited and the flush of every job found running was called
AllAttempted ==
    (spc # "exit" /\ spc' = "exit" /\ shutFailed # {}) =>
        /\ CrawlersOf(crawler_instances) \subseteq visited
        /\ Drained \subseteq Attempted

\* C11: what a flush, a cursor write or a status write raises during
\* graceful_shutdown never leaves the loop (the except of line 1436 is not
\* reached), and the entries after the failing one are still visited and their
\* flush attempted.
C11_ErrorStaysWithEntry == [](spc # "error") /\ [][AllAttempted]_vars

\* the handler has left its loop after the cursor write of the first of two
\* running jobs raised; the flush of the second was attempted after it
C11_Witness ==
    /\ spc = "exit"
    /\ Cardinality(eligible) = 2
    /\ Eligible(engine[1]) /\ Eligible(engine[2])
    /\ saved[engine[1].crawl_id] = {"batch"}
    /\ engine[1].crawl_id \in shutFailed
    /\ engine[2].crawl_id \in Attempted

\* C12: while the handler is in its loop, every entry of the registry was visited
\* or is still in the copy to be visited, and the handler goes on to exit only
\* with nothing left in the copy.
C12_ExitAfterAllProcessed ==
    /\ InDrain => CrawlersOf(crawler_instances) = visited \cup CrawlersOf(snapshot)
    /\ spc \in {"exit", "exited"} => snapshot = << >>

\* the process has exited after a drain that visited two entries and skipped one
\* of them on an error
C12_Witness ==
    /\ spc = "exited"
    /\ Cardinality(visited) = 2
    /\ Cardinality(shutFailed) = 1

\* C13: from the copy of the registry at the start of the drain until the process
\* has exited, no accessor constructs a registry entry.
C13_NoNewEntryWhileDraining ==
    [][(InDrain \/ spc = "exit") => nextObj' = nextObj]_vars

\* C14: a drain that has begun goes on to the exit of the process, whether or not
\* a save call of one entry returns.
C14_DrainReachesExit == (spc = "acquire") ~> (spc = "exited")

\* C15: when the process has exited through graceful_shutdown, the crawl database
\* it leaves to the next process holds no job with status running.
C15_NoRunningAfterShutdown ==
    spc = "exited" => \A i \in CrawlIds : crawls[i] # "running"

(***************************************************************************)
(* The sweep and the drain side by side (SweepDrainSpec).                  *)
(***************************************************************************)
\* the sweep is at the stop request or the removal of the entry of session s
SweepAt(s) == cpc \in {"stop", "del"} /\ Head(sessions_to_remove) = s

\* the drain is at a save call of the entry of session s
FlushAt(s) == spc \in {"batch", "queue", "status"} /\ Head(snapshot).sid = s

\* C17: the sweep's stop-and-remove of an entry and the drain's flush of the same
\* entry are never in progress at the same moment.
C17_SweepAndFlushApart == \A s \in Sids : ~(SweepAt(s) /\ FlushAt(s))

\* the drain is flushing an entry that the sweep, waiting for the lock, will find
\* expired
C17_Witness ==
    /\ spc = "batch"
    /\ cpc = "acquire"
    /\ Expired(Head(snapshot), now)

(***************************************************************************)
(* Eviction of idle entries (LiveSpec).                                    *)
(***************************************************************************)
\* the registry holds an entry with engine o that was last accessed at time t
EntryIs(o, t) ==
    \E i \in DOMAIN crawler_instances :
        /\ crawler_instances[i].crawler = o
        /\ crawler_instances[i].last_accessed = t

\* C5: with the cleanup thread scheduled fairly, every entry of the registry is
\* eventually removed unless it is accessed again: no entry stays in the registry
\* for ever with the last_accessed it has (for every last_accessed among Times,
\* after each of which there is a time beyond the idle threshold).
C5_IdleEventuallyRemoved ==
    \A o \in Objs, t \in Times : EntryIs(o, t) ~> ~EntryIs(o, t)

\* a sweep late enough has removed an entry that was last accessed at the latest
\* time a request was served
C5_Witness ==
    /\ cpc = "done"
    /\ now = EndOfTime
    /\ \E i \in DOMAIN sweepSeen :
          /\ sweepSeen[i].last_accessed = MaxHours * 60 + 1
          /\ ~StillPresent(i)

(***************************************************************************)
(* Properties of the job endpoints (LoadSpec, JobSpec).                    *)
(***************************************************************************)
\* the engines of the registry that are running crawl id
RunningOn(id) ==
    { i \in DOMAIN crawler_instances :
        /\ engine[crawler_instances[i].crawler].is_running
        /\ engine[crawler_instances[i].crawler].crawl_id = id }

\* C18: at most one engine of the registry is running a given crawl id, whatever
\* start, load and resume requests the sessions have issued: the engines of two
\* sessions never run the same crawl at once.
C18_SingleFlight == \A id \in CrawlIds : Cardinality(RunningOn(id)) <= 1

\* the response the request of thread t has for its job operation
Verdict(t) == IF pc[t] \in {"not_found", "unauthorized"} THEN pc[t] ELSE "ok"

\* a job endpoint has taken up the operation of thread t on crawl id
Requested(t, id) == job[t] = NoCrawl /\ job'[t] = id

\* C19: a load, resume, archive or delete of a crawl id is rejected as not found
\* when no such crawl is stored, rejected as unauthorized whenever the crawl has a
\* non-null owner other than the requesting user, a guest included, and goes on
\* otherwise.
C19_RejectedIffNotOwner ==
    [][\A t \in Threads, id \in CrawlIds :
          Requested(t, id) =>
              Verdict(t)' = IF crawls[id] = Absent THEN "not_found"
                            ELSE IF owner[id] # NoUser /\ owner[id] # UserOf(client[t])
                                 THEN "unauthorized"
                            ELSE "ok"]_vars

\* the engines whose records were injected by a load or a resume and that have
\* not crawled since
Loaded == { o \in Objs : held[o].loaded # NoCrawl }

Pairs(links) == { << links[i].source_url, links[i].target_url >> : i \in DOMAIN links }

\* the entry of the dedup index for a pair
KeyOf(pair) == LinkKey(Link(pair[1], pair[2]))

\* C21: after a load the engine's link dedup index is rebuilt from the loaded link
\* records only: it holds the entry of every pair of the loaded links and nothing
\* else, one entry per distinct (source_url, target_url) pair, and two pairs share
\* an entry only if they are the same pair.
C21_IndexOnePerPair ==
    \A o \in Loaded :
        LET ps == Pairs(stored[held[o].loaded].links)
        IN  /\ held[o].links_set = { KeyOf(p) : p \in ps }
            /\ Cardinality(held[o].links_set) = Cardinality(ps)
            /\ \A p, q \in ps : KeyOf(p) = KeyOf(q) => p = q

\* the request of thread t injects the records of the crawl it loads
Injects(t) == pc[t] = "ready" /\ pc'[t] = "loaded"

\* C22: a view-only load of a crawl into a session never changes the persisted
\* status of that crawl, whatever the status is and whatever the session's engine
\* was doing when the load was requested.
C22_LoadKeepsStatus ==
    [][\A t \in Threads : Injects(t) => crawls'[job[t]] = crawls[job[t]]]_vars

(***************************************************************************)
(* Properties of the status poll (RefreshSpec, PollSpec).                  *)
(***************************************************************************)
\* the request of thread t polls the status
Polls(t) == pc[t] = "ready" /\ pc'[t] = "polled"

\* the request of thread t is the first poll of its client that began after a load
\* of that client was answered
FirstAfterLoad(t) == after_load[t] /\ due[client[t]]

\* C23: after a successful load has set the session's force-full-refresh flag, the
\* next status poll of the session returns the complete URL, link and issue
\* collections (the issues less the excluded ones) whatever since-indexes it
\* carries, and clears the flag.
C23_NextPollIsFull ==
    [][\A t \in Threads :
          Polls(t) /\ FirstAfterLoad(t) =>
              /\ status_data'[t].urls = held[crawler[t]].crawl_results
              /\ status_data'[t].links = held[crawler[t]].all_links
              /\ status_data'[t].issues =
                     Filtered(held[crawler[t]].detected_issues, patterns[settings[t]])
              /\ ~refresh'[t]]_vars

\* the records of list at positions k and later, the first position being 0; the
\* whole list without a cursor
FromPosition(list, cursor) ==
    IF cursor = << >> THEN list
    ELSE SubSeq(list, (IF cursor[1] > 0 THEN cursor[1] ELSE 0) + 1, Len(list))

\* C24: when the force-full-refresh flag is not set, a status poll that carries
\* since-index k for a collection returns exactly the records of that collection
\* at positions k and later, in order, and the whole collection without a cursor,
\* each of the three cursors acting on its own collection only (so a client that
\* polls with the number of records it has receives every record once).
C24_RecordsFromCursor ==
    [][\A t \in Threads :
          Polls(t) /\ ~refresh[t] =>
              /\ status_data'[t].urls =
                     FromPosition(held[crawler[t]].crawl_results, status_data'[t].url_since)
              /\ status_data'[t].links =
                     FromPosition(held[crawler[t]].all_links, status_data'[t].link_since)
              /\ status_data'[t].issues =
                     FromPosition(held[crawler[t]].detected_issues,
                                  status_data'[t].issue_since)]_vars

(***************************************************************************)
(* Properties of the persisted status of a crawl.                          *)
(***************************************************************************)
\* C25: the persisted status of a crawl becomes archived only from a status other
\* than running: no step takes a crawl from running to archived.
C25_ArchivedNotFromRunning ==
    [][\A id \in CrawlIds : crawls[id] = "running" => crawls'[id] # "archived"]_vars

\* C26: once the persisted status of a crawl is completed or archived, no
\* operation but its deletion changes it: neither archive, graceful shutdown, crash
\* recovery nor load takes a crawl out of completed or out of archived.
C26_CompletedAndArchivedStay ==
    [][\A id \in CrawlIds :
          crawls[id] \in {"completed", "archived"} => crawls'[id] \in {crawls[id], Absent}]_vars

(***************************************************************************)
(* Properties of sessions (LogoutSpec, Spec).                              *)
(***************************************************************************)
\* C27: a registry entry is destroyed by logout as well as by idle eviction: once
\* the logout of a session is answered, the registry holds no entry for that
\* session.
C27_LogoutRemovesEntry == \A s \in logged_out : ~Has(crawler_instances, s)

\* the threads that run a request of client c whose session has a session id
Identified(c) == { t \in Threads : pc[t] # "idle" /\ client[t] = c /\ session_id[t] # NoSid }

\* C28: the session id of a client is generated once and is the same in every
\* request of the client: the requests of one client, concurrent first requests
\* included, have one session id and so resolve to one registry entry.
C28_OneSessionPerClient ==
    \A c \in Clients : \A t1, t2 \in Identified(c) : session_id[t1] = session_id[t2]

(***************************************************************************)
(* Properties of the guest limit (GuestSpec).                              *)
(***************************************************************************)
\* C29: however the start_crawl requests of the guest sessions of one client IP
\* interleave, at most 3 guest crawls are logged for the IP within 24 hours; a
\* request that arrives when 3 are logged is rejected, no crawl logged or started.
C29_AtMostThreeLogged == guest_crawls <= GuestLimit

(***************************************************************************)
(* Properties of the order of the save steps of graceful_shutdown          *)
(* (ShutdownSpec).                                                          *)
(***************************************************************************)
\* line 1430 has just written paused for job id
MarkedPaused(id) == "paused" \in saved'[id] /\ "paused" \notin saved[id]

\* the flush of line 1427 and the checkpoint write of line 1428 returned for job id
Checkpointed(id) == {"batch", "queue"} \subseteq saved[id]

\* C30: during graceful_shutdown the status of a job is set to paused only after
\* its forced batch flush and then its queue checkpoint write have both returned
\* without error: no job is marked paused without a persisted checkpoint and
\* cursor for it.
C30_PausedOnlyCheckpointed ==
    [][\A id \in CrawlIds : MarkedPaused(id) => Checkpointed(id)]_vars

(***************************************************************************)
(* Properties of the refresh of an existing entry (Spec).                  *)
(***************************************************************************)
\* thread t leaves an accessor that found the entry of its session
Refreshes(t) == pc[t] = "locked" /\ found[t] /\ pc'[t] # "locked"

\* the step changes nothing of the entry of s but its last_accessed, which is the
\* current time, and nothing of any other entry, engine or settings object
OnlyTouches(s) ==
    /\ Len(crawler_instances') = Len(crawler_instances)
    /\ \A i \in DOMAIN crawler_instances :
          IF crawler_instances[i].sid = s
          THEN crawler_instances'[i] = [crawler_instances[i] EXCEPT !.last_accessed = clock]
          ELSE crawler_instances'[i] = crawler_instances[i]
    /\ UNCHANGED << scriptVars, engine, held, patterns, nextObj, built >>

\* no entry that stays in the registry has its last_accessed set back
NeverOlder ==
    \A s \in Keys(crawler_instances) \cap Keys(crawler_instances') :
        Item(crawler_instances', s).last_accessed >= Item(crawler_instances, s).last_accessed

\* C31: a get_or_create_crawler or get_session_settings call on an existing entry
\* sets the last_accessed of that entry to the current time and changes nothing
\* else: the entry keeps its engine and its settings object, no other entry is
\* modified; and the last_accessed of an entry never decreases.
C31_RefreshOnlyTouchesTime ==
    [][/\ \A t \in Threads : Refreshes(t) => OnlyTouches(session_id[t])
       /\ NeverOlder]_vars

\* the registry holds two entries, and the one inserted first was accessed again
\* after the second was inserted; it still holds the objects it was built with
C31_Witness ==
    /\ Len(crawler_instances) = 2
    /\ crawler_instances[1].last_accessed > crawler_instances[2].last_accessed
    /\ crawler_instances[1].crawler = 1
    /\ crawler_instances[1].settings = 1

(***************************************************************************)
(* Properties of the load step by step (StepSpec, FailSpec).               *)
(***************************************************************************)
\* the request of thread t injects the first loaded records
InjectsFirst(t) == pc[t] = "read" /\ pc'[t] = "results"

\* the load of thread t is answered
LoadAnswered(t) == pc[t] = "loaded" /\ pc'[t] = "idle"

\* the engine of the request of thread t holds the stored records of the job of
\* the request and no other
HoldsOnlyLoaded(t) ==
    /\ held[crawler[t]].crawl_results = stored[job[t]].urls
    /\ held[crawler[t]].all_links = stored[job[t]].links
    /\ held[crawler[t]].detected_issues = stored[job[t]].issues

\* C32: when a load is requested on a session whose engine is running a crawl, the
\* engine is stopped before any loaded record is injected, so that after the load
\* the engine's collections contain only the records of the loaded job and none
\* the crawl that was running produced.
C32_StoppedBeforeInject ==
    [][\A t \in Threads :
          /\ InjectsFirst(t) /\ was_running[t] => ~engine[crawler[t]].is_running
          /\ LoadAnswered(t) /\ was_running[t] => HoldsOnlyLoaded(t)]_vars

(***************************************************************************)
(* Properties of the scope of the settings (AuthSpec).                     *)
(***************************************************************************)
\* thread t leaves an accessor with the entry of its session
Accesses(t) ==
    /\ pc[t] = "locked" /\ pc'[t] = "ready"
    /\ Has(crawler_instances', session_id[t])

\* C33: the settings object of a registry entry is scoped to the session id, owner
\* and tier of its session: at every access the owner and tier the settings of the
\* entry hold are the current owner and tier of the session, for every sequence of
\* guest login, login and requests of the session.
C33_SettingsOfSessionUser ==
    [][\A t \in Threads :
          Accesses(t) =>
              scope'[Item(crawler_instances', session_id[t]).settings] = user_id[t]]_vars

(***************************************************************************)
(* Properties of the cleanup loop under sweeps that raise (RaiseSpec).     *)
(***************************************************************************)
\* C34: an exception raised inside a run of cleanup_old_instances does not end the
\* periodic cleanup loop: the loop catches it, the cleanup thread never ends, and
\* after the exception, as after every sweep, the thread sleeps its period and
\* sweeps again.
C34_LoopSurvivesException ==
    /\ [](cpc # "ended")
    /\ (cpc = "caught") ~> (cpc = "sleep")
    /\ (cpc = "sleep") ~> (cpc = "acquire")

\* a sweep that found an expired entry raised before it deleted it: the exception
\* is caught in cleanup_loop, the lock is free and the entry still in the registry
C34_Witness ==
    /\ cpc = "caught"
    /\ instances_lock = NoThread
    /\ crawler_instances # << >>
    /\ Expired(crawler_instances[1], now)

(***************************************************************************)
(* Properties of a load that fails (FailSpec).                             *)
(***************************************************************************)
\* the load of thread t is refused: no row, or the row of another user
LoadRefused(t) == pc[t] = "ready" /\ pc'[t] \in {"not_found", "unauthorized"}

\* the load of thread t is answered with the error caught at line 1085
LoadFailed(t) == pc[t] = "error" /\ pc'[t] = "idle"

\* working states with the same collections, counters and dedup index
SameWork(h, g) ==
    /\ h.crawl_results = g.crawl_results
    /\ h.all_links = g.all_links
    /\ h.detected_issues = g.detected_issues
    /\ h.crawled = g.crawled
    /\ h.discovered = g.discovered
    /\ h.links_set = g.links_set

\* C35: when a load returns a failure (job not found, unauthorized, or an error
\* while the records are read or injected), the collections, counters and dedup
\* index of the session's engine and its force-full-refresh flag are what they
\* were before the request; for not found and unauthorized no registry entry is
\* created or refreshed and no running crawl is stopped.
C35_FailedLoadLeavesState ==
    [][\A t \in Threads :
          /\ LoadRefused(t) =>
                 /\ crawler[t] = NoObj
                 /\ UNCHANGED << crawler_instances, engine, held, force_full_refresh >>
          /\ LoadFailed(t) =>
                 /\ SameWork(held[crawler[t]], before[t])
                 /\ force_full_refresh'[client[t]] = force_full_refresh[client[t]]]_vars

(***************************************************************************)
(* Properties of the accesses to the registry map (MapSpec).               *)
(***************************************************************************)
\* the request threads that are in a loop over the items of the registry
Iterating == { t \in Threads : pc[t] = "iterating" }

\* every thread that is at a statement that reads, iterates or changes the
\* registry holds instances_lock
UnderLock ==
    /\ \A t \in Threads : pc[t] \in {"locked", "iterating"} => instances_lock = t
    /\ cpc \in {"stop", "del", "done"} => instances_lock = CleanupThread
    /\ InDrain => instances_lock = MainThread

\* a step that inserts, deletes or changes an entry is taken by the holder of the
\* lock while no request iterates the map and the shutdown handler is not in its
\* loop; a deletion of the sweep comes after its scan of the map
MapChangesAlone ==
    crawler_instances' # crawler_instances =>
        /\ instances_lock # NoThread
        /\ Iterating = {} /\ ~InDrain
        /\ Len(crawler_instances') < Len(crawler_instances) => cpc = "del"

\* C40: every read, iteration, insertion and deletion of the registry map happens
\* while instances_lock is held, and the sweep deletes entries only after it has
\* finished iterating over the map: no thread iterates the map while another
\* thread, or the same loop, inserts or deletes an entry.
C40_MapOnlyUnderLock == []UnderLock /\ [][MapChangesAlone]_vars

\* a debug request iterates the registry, which holds an expired entry, while the
\* cleanup thread waits for the lock and a request waits to look up its session
C40_Witness ==
    /\ pc[1] = "iterating"
    /\ cpc = "acquire"
    /\ crawler_instances # << >>
    /\ Expired(crawler_instances[1], now)
    /\ pc[2] = "ready" /\ session_id[2] = NoSid

(***************************************************************************)
(* batch_md.py: fetch_markdown_for_url, one URL fetched through the reader *)
(* service with retries.                                                   *)
(***************************************************************************)
\* the retries argument (the default of line 118 is 5)
RetryCounts == 0..MaxRetries

\* the backoff argument (the default of line 119 is 1.5); powers of the second
\* value pass the cap from the second attempt on
Backoffs == {2, 6}

\* a float of Python: a finite number of seconds, or infinity
Seconds(k) == [finite |-> TRUE, seconds |-> k]
Infinity   == [finite |-> FALSE, seconds |-> 0]

\* what resp.headers.get("Retry-After") gives for a 429 response: None or an empty
\* text (both written ""), an HTTP date, the text of a number of seconds, or a text
\* that float() reads as infinity
RetryAfterHeaders == {"", "date", "0", "7", "inf"}

\* float(header) raises ValueError
NotAFloat(header) == header = "date"

\* float(header)
Float(header) ==
    CASE header = "0" -> Seconds(0)
      [] header = "7" -> Seconds(7)
      [] header = "inf" -> Infinity

\* lines 136-140: retry_after is None for a missing or empty header and for a text
\* float() rejects
NoRetryAfter(header) == header = "" \/ NotAFloat(header)

\* backoff ** attempt
RECURSIVE Power(_, _)
Power(b, n) == IF n = 0 THEN 1 ELSE b * Power(b, n - 1)

\* lines 142 and 163: min(30, backoff ** attempt)
Backoff(b, attempt) ==
    Seconds(IF Power(b, attempt) < BackoffCap THEN Power(b, attempt) ELSE BackoffCap)

\* line 142: the delay before the retry of a 429 response
Delay(header, b, attempt) ==
    IF NoRetryAfter(header) THEN Backoff(b, attempt) ELSE Float(header)

\* last_error is None
NoError == << >>

\* line 173: the RuntimeError raised when no error was recorded
RuntimeError == << "RuntimeError" >>

\* lines 115-130: the call; jina_url and last_error are set, the loop begins with
\* attempt 1 or, with retries below 1, is over at once
FetchCall(retries, b) ==
    /\ fetch.pc = "idle"
    /\ fetch' = [pc         |-> IF retries >= 1 THEN "get" ELSE "exhausted",
                 retries    |-> retries,
                 backoff    |-> b,
                 attempt    |-> 1,
                 last_error |-> NoError,
                 delay      |-> Seconds(0),
                 issued     |-> 0,
                 responses  |-> << >>,
                 result     |-> << >>]
    /\ UNCHANGED << serverVars, batch, site >>

\* the for statement of line 130 takes the next attempt, or the loop is over
NextAttempt(f) ==
    IF f.attempt < f.retries
    THEN [f EXCEPT !.pc = "get", !.attempt = @ + 1]
    ELSE [f EXCEPT !.pc = "exhausted"]

\* lines 131-165: session.get is answered.  kind "ok" is a response whose body is
\* read, "429" a response with status 429, "error" an aiohttp.ClientError or a
\* timeout, from the request, from raise_for_status or from reading the body
FetchResponse(kind, header) ==
    /\ fetch.pc = "get"
    /\ kind = "429" \/ header = ""
    /\ LET f == [fetch EXCEPT !.issued = @ + 1, !.responses = Append(@, kind)] IN
       fetch' =
          CASE kind = "ok" ->
                  [f EXCEPT !.pc = "returned", !.result = << "text", f.attempt >>]
            [] kind = "429" ->
                  [f EXCEPT !.pc = "sleep429", !.delay = Delay(header, f.backoff, f.attempt)]
            [] kind = "error" ->
                  IF f.attempt >= f.retries
                  THEN [f EXCEPT !.pc = "exhausted", !.last_error = << "error", f.attempt >>]
                  ELSE [f EXCEPT !.pc = "sleep", !.last_error = << "error", f.attempt >>,
                                 !.delay = Backoff(f.backoff, f.attempt)]
    /\ UNCHANGED << serverVars, batch, site >>

\* asyncio.sleep(delay) is over after delay seconds: never, for an infinite delay
SleepEnds(delay) == delay.finite

\* lines 150-154 and 172: the sleep is over; after a 429 the error is recorded and
\* `continue` taken, after an error the loop goes on
FetchWake ==
    /\ fetch.pc \in {"sleep429", "sleep"}
    /\ SleepEnds(fetch.delay)
    /\ fetch' = IF fetch.pc = "sleep429"
                THEN NextAttempt([fetch EXCEPT !.last_error = << "429", fetch.attempt >>])
                ELSE NextAttempt(fetch)
    /\ UNCHANGED << serverVars, batch, site >>

\* lines 167-173: the loop is over without a return; last_error is raised, or a
\* RuntimeError when there is none
FetchRaise ==
    /\ fetch.pc = "exhausted"
    /\ fetch' = [fetch EXCEPT !.pc = "raised",
                              !.result = IF fetch.last_error # NoError THEN fetch.last_error
                                         ELSE RuntimeError]
    /\ UNCHANGED << serverVars, batch, site >>

\* a script runs beside a server that has reached serve()
InitScript == StartAt("serving", [i \in CrawlIds |-> Absent], 0)

FetchNext ==
    \/ \E retries \in RetryCounts, b \in Backoffs : FetchCall(retries, b)
    \/ \E kind \in {"ok", "429", "error"}, header \in RetryAfterHeaders :
           FetchResponse(kind, header)
    \/ FetchWake
    \/ FetchRaise

\* the event loop runs the coroutine whenever it can go on, and every request is
\* answered or times out
FetchSpec == InitScript /\ [][FetchNext]_vars /\ WF_vars(FetchNext)

\* the call has ended: it returned a body or raised
FetchEnded == fetch.pc \in {"returned", "raised"}

\* at most `retries` requests; a returned body is that of the first response that
\* is neither a 429 nor an error; an error is raised after the final attempt only,
\* and it is the error of that attempt
FetchWithinRetries ==
    fetch.pc # "idle" =>
        /\ fetch.issued <= fetch.retries
        /\ fetch.pc = "returned" =>
              /\ fetch.result = << "text", fetch.issued >>
              /\ \A i \in 1..fetch.issued : fetch.responses[i] = "ok" <=> i = fetch.issued
        /\ fetch.pc = "raised" =>
              /\ fetch.issued = fetch.retries
              /\ \A i \in 1..fetch.issued : fetch.responses[i] # "ok"
              /\ fetch.result = IF fetch.retries = 0 THEN RuntimeError
                                ELSE << fetch.responses[fetch.issued], fetch.issued >>

\* a 429 response is retried after its delay, unless it was the final attempt
RetriedAfter429 ==
    (fetch.pc = "sleep429" /\ fetch.attempt < fetch.retries)
        ~> (fetch.pc = "get" \/ FetchEnded)

\* C36: fetch_markdown_for_url issues at most `retries` HTTP requests for a URL and
\* always terminates: it returns the body of the first response that is neither a
\* 429 nor an error, and otherwise raises the last error after the final attempt; a
\* 429 response counts as one attempt and is retried after a delay.
C36_FetchTerminates ==
    /\ []FetchWithinRetries
    /\ (fetch.pc # "idle") ~> FetchEnded
    /\ RetriedAfter429

\* C36 without the Retry-After header of a 429 response being infinite: the delay
\* of every retry is finite
FiniteDelays == [](fetch.pc = "sleep429" => fetch.delay.finite)
C36_TerminatesOnFiniteDelays == FiniteDelays => C36_FetchTerminates

(***************************************************************************)
(* batch_md.py: url_to_filename.  A URL is a sequence of characters; the    *)
(* scheme prefix "https://" or "http://" is written as one element.        *)
(***************************************************************************)
Schemes == {"https://", "http://"}

\* line 110: the characters that are kept
SafeChars == {"-", "_", ".", "(", ")", "a", "b", "e", "i", "q", "s", "t", "x", "y"}

\* s.lstrip(c)
RECURSIVE LStrip(_, _)
LStrip(s, c) == IF s # << >> /\ Head(s) = c THEN LStrip(Tail(s), c) ELSE s

\* s.rstrip(c)
RECURSIVE RStrip(_, _)
RStrip(s, c) ==
    IF s # << >> /\ s[Len(s)] = c THEN RStrip(SubSeq(s, 1, Len(s) - 1), c) ELSE s

\* s.strip(c)
Strip(s, c) == RStrip(LStrip(s, c), c)

\* the part of s before its first character of stops
RECURSIVE UpTo(_, _)
UpTo(s, stops) ==
    IF s = << >> \/ Head(s) \in stops THEN << >> ELSE << Head(s) >> \o UpTo(Tail(s), stops)

\* the part of s from its first character of stops on
RECURSIVE FromFirst(_, _)
FromFirst(s, stops) ==
    IF s = << >> \/ Head(s) \in stops THEN s ELSE FromFirst(Tail(s), stops)

\* lines 98-99: a URL without a scheme gets "https://" before its text without
\* leading slashes
WithScheme(url) ==
    IF url # << >> /\ Head(url) \in Schemes THEN url ELSE << "https://" >> \o LStrip(url, "/")

\* urlparse(url).netloc: what follows the scheme, up to the first / ? or #
Netloc(url) == UpTo(Tail(url), {"/", "?", "#"})

\* urlparse(url).path: from the first / after the netloc up to the first ? or #
UrlPath(url) == UpTo(FromFirst(Tail(url), {"/", "?", "#"}), {"?", "#"})

\* line 111: every character outside the safe characters becomes "_"
Sanitized(base) ==
    [i \in 1..Len(base) |-> IF base[i] \in SafeChars THEN base[i] ELSE "_"]

\* lines 95-112
url_to_filename(u) ==
    LET url    == WithScheme(u)
        netloc == IF Netloc(url) # << >> THEN Netloc(url) ELSE << "s", "i", "t", "e" >>
        path   == Strip(UrlPath(url), "/")
        base   == IF path # << >> THEN netloc \o << "_" >> \o path ELSE netloc
    IN  Sanitized(base) \o << ".md" >>

\* the URLs of the crawl database that a run exports: distinct rows of crawled_urls
CrawledUrls ==
    { << "https://", "a", "/", "x", "/", "y" >>,
      << "https://", "a", "/", "x", "_", "y" >>,
      << "https://", "a", "/", "x", "?", "q" >>,
      << "http://", "a", "/", "x", "/" >>,
      << "/", "b" >> }

\* the lists of up to n distinct URLs
RECURSIVE UrlLists(_)
UrlLists(n) ==
    IF n = 0 THEN { << >> }
    ELSE UrlLists(n - 1) \cup
         { Append(l, u) : l \in { k \in UrlLists(n - 1) : Len(k) = n - 1 }, u \in CrawledUrls }

DistinctUrlLists ==
    { l \in UrlLists(MaxTargets) :
          l # << >> /\ \A i, j \in 1..Len(l) : l[i] = l[j] => i = j }

(***************************************************************************)
(* batch_md.py: main() and its tasks.  The tasks are coroutines of one     *)
(* event loop: a task runs without interruption from one await to the next.*)
(***************************************************************************)
\* the --max-workers argument (line 359: type=int)
WorkerCounts == -1..MaxWorkers

\* lines 277-279: a value below 1 is reset to 1
Workers(max_workers) == IF max_workers < 1 THEN 1 ELSE max_workers

\* process_single_url without its `async with semaphore:`
Locked_Never(value) == FALSE

\* asyncio.Semaphore.locked(): no slot is free
Locked(value) == value <= 0

Tasks == IF batch.pc = "idle" THEN {} ELSE 1..Len(batch.targets)

\* lines 242-312: main(start_index, max_workers) with the URLs the database gave, in
\* an output directory that holds the files `existing`; the semaphore is made and
\* one task per target created
BatchCall(max_workers, urls, existing) ==
    /\ batch.pc = "idle"
    /\ batch' = [pc          |-> "gather",
                 max_workers |-> max_workers,
                 semaphore   |-> Workers(max_workers),
                 targets     |-> urls,
                 task        |-> [i \in 1..Len(urls) |-> "created"],
                 files       |-> existing,
                 existed     |-> {},
                 fetched     |-> {},
                 writes      |-> << >>]
    /\ UNCHANGED << serverVars, fetch, site >>

\* lines 225-233: the task runs for the first time: the file name, the check of
\* os.path.exists, and the semaphore, which it takes at once when a slot is free
TaskStart(i) ==
    /\ batch.pc = "gather"
    /\ i \in Tasks
    /\ batch.task[i] = "created"
    /\ LET out_path == url_to_filename(batch.targets[i]) IN
       batch' =
          IF out_path \in batch.files
          THEN [batch EXCEPT !.task[i] = "skipped", !.existed = @ \cup {i}]
          ELSE IF Locked(batch.semaphore)
          THEN [batch EXCEPT !.task[i] = "waiting"]
          ELSE [batch EXCEPT !.task[i] = "fetching", !.semaphore = @ - 1,
                             !.fetched = @ \cup {i}]
    /\ UNCHANGED << serverVars, fetch, site >>

\* line 231: a waiting task is woken when a slot is free and takes it
TaskAcquire(i) ==
    /\ batch.pc = "gather"
    /\ i \in Tasks
    /\ batch.task[i] = "waiting"
    /\ ~Locked(batch.semaphore)
    /\ batch' = [batch EXCEPT !.task[i] = "fetching", !.semaphore = @ - 1,
                              !.fetched = @ \cup {i}]
    /\ UNCHANGED << serverVars, fetch, site >>

\* lines 234-239: fetch_markdown_for_url ends.  A returned text is written to
\* out_path with open(out_path, "w"); an exception is logged.  The semaphore is
\* released
TaskFetched(i, ok) ==
    /\ batch.pc = "gather"
    /\ i \in Tasks
    /\ batch.task[i] = "fetching"
    /\ LET out_path == url_to_filename(batch.targets[i]) IN
       batch' =
          IF ok
          THEN [batch EXCEPT !.task[i] = "done", !.semaphore = @ + 1,
                             !.files = @ \cup {out_path},
                             !.writes = Append(@, [path |-> out_path, idx |-> i])]
          ELSE [batch EXCEPT !.task[i] = "done", !.semaphore = @ + 1]
    /\ UNCHANGED << serverVars, fetch, site >>

\* lines 311-312: asyncio.gather returns when every task has ended
BatchEnd ==
    /\ batch.pc = "gather"
    /\ \A i \in Tasks : batch.task[i] \in {"skipped", "done"}
    /\ batch' = [batch EXCEPT !.pc = "finished"]
    /\ UNCHANGED << serverVars, fetch, site >>

\* the output files the targets of a run can be named
FilesOf(urls) == { url_to_filename(urls[i]) : i \in 1..Len(urls) }

BatchNext ==
    \/ \E max_workers \in WorkerCounts, urls \in DistinctUrlLists :
           \E existing \in SUBSET FilesOf(urls) : BatchCall(max_workers, urls, existing)
    \/ \E i \in 1..MaxTargets : TaskStart(i)
    \/ \E i \in 1..MaxTargets : TaskAcquire(i)
    \/ \E i \in 1..MaxTargets, ok \in BOOLEAN : TaskFetched(i, ok)
    \/ BatchEnd

BatchSpec == InitScript /\ [][BatchNext]_vars

(***************************************************************************)
(* Properties of a batch_md run (BatchSpec).                               *)
(***************************************************************************)
\* the tasks whose fetch is in flight
InFlight == { i \in Tasks : batch.task[i] = "fetching" }

\* C37: at any moment of a batch_md run at most max_workers URL fetches are in
\* flight, for every number of target URLs, and a max_workers value below 1 is
\* treated as 1.
C37_AtMostMaxWorkersInFlight ==
    batch.pc # "idle" =>
        Cardinality(InFlight) <= (IF batch.max_workers < 1 THEN 1 ELSE batch.max_workers)

\* a run with max_workers 0 and three targets: one fetch is in flight, a second
\* task waits for the semaphore
C37_Witness ==
    /\ batch.pc = "gather"
    /\ batch.max_workers = 0
    /\ Len(batch.targets) = MaxTargets
    /\ Cardinality(InFlight) = 1
    /\ \E i \in Tasks : batch.task[i] = "waiting"

\* no two writes of the run go to the same path
OneWritePerFile ==
    \A j, k \in 1..Len(batch.writes) :
        batch.writes[j].path = batch.writes[k].path => j = k

\* a task that found its output file at its check has neither fetched nor written
ExistingLeftAlone ==
    \A i \in batch.existed :
        /\ i \notin batch.fetched
        /\ \A j \in 1..Len(batch.writes) : batch.writes[j].idx # i

\* C38: within one run of batch_md each output file is written by at most one task:
\* two distinct URLs of the run are never written to the same file path, and a URL
\* whose output file already exists when its task checks is neither fetched nor
\* overwritten.
C38_OneTaskPerFile ==
    batch.pc # "idle" => OneWritePerFile /\ ExistingLeftAlone

\* the second half of C38 alone
C38_ExistingSkipped == batch.pc # "idle" => ExistingLeftAlone

(***************************************************************************)
(* batch_universities.py: crawl_site starts a crawl over HTTP and polls     *)
(* /api/crawl_status until the crawl is reported completed.                *)
(***************************************************************************)
\* the states a crawl ends in (the status an engine reports when it no longer runs)
EndStates == {"completed", "failed", "paused"}

\* the URLs of the pages of the site
SitePages == 1..MaxPages

\* lines 50-60: the call: an HTTP session of its own, the scheme added to a bare
\* domain, POST /api/start_crawl sent
SiteCall ==
    /\ site.pc = "idle"
    /\ site' = [pc      |-> "post",
                crawl   |-> "none",
                records |-> << >>,
                status  |-> "none",
                urls    |-> << >>,
                answer  |-> << >>]
    /\ UNCHANGED << serverVars, fetch, batch >>

\* lines 60-67: the answer of start_crawl; without `success` a RuntimeError is
\* raised, with it the engine of the session runs the crawl
SiteStarted(success) ==
    /\ site.pc = "post"
    /\ site' = IF success
               THEN [site EXCEPT !.pc = "sleep", !.crawl = "running"]
               ELSE [site EXCEPT !.pc = "raised"]
    /\ UNCHANGED << serverVars, fetch, batch >>

\* crawl_site is in its loop of lines 70-89
Polling == site.pc \in {"sleep", "get"}

\* the engine crawls a page and appends its record to crawl_results
CrawlAppend(page) ==
    /\ Polling
    /\ site.crawl = "running"
    /\ Len(site.records) < MaxResults
    /\ site' = [site EXCEPT !.records = Append(@, [url |-> page])]
    /\ UNCHANGED << serverVars, fetch, batch >>

\* the crawl ends: the frontier is empty, the crawl failed, or it was paused
CrawlEnds(st) ==
    /\ Polling
    /\ site.crawl = "running"
    /\ site' = [site EXCEPT !.crawl = st]
    /\ UNCHANGED << serverVars, fetch, batch >>

\* line 86: [u.get("url") for u in urls]
UrlsOf(records) == [i \in 1..Len(records) |-> records[i].url]

\* line 71: time.sleep(1) is over
SiteSleep ==
    /\ site.pc = "sleep"
    /\ site' = [site EXCEPT !.pc = "get"]
    /\ UNCHANGED << serverVars, fetch, batch >>

\* lines 72-86: GET /api/crawl_status without cursors, so that every list comes
\* whole (lines 685-707 of main.py); return the URLs when the status is completed,
\* go round again when it is not
SitePoll ==
    /\ site.pc = "get"
    /\ LET status == [status |-> site.crawl,
                      urls   |-> Sliced(site.records, << >>, FALSE)]
       IN  site' = IF status.status = "completed"
                   THEN [site EXCEPT !.pc = "returned", !.status = status.status,
                                     !.urls = status.urls, !.answer = UrlsOf(status.urls)]
                   ELSE [site EXCEPT !.pc = "sleep", !.status = status.status,
                                     !.urls = status.urls]
    /\ UNCHANGED << serverVars, fetch, batch >>

SiteNext ==
    \/ SiteCall
    \/ \E success \in BOOLEAN : SiteStarted(success)
    \/ \E page \in SitePages : CrawlAppend(page)
    \/ \E st \in EndStates : CrawlEnds(st)
    \/ SiteSleep
    \/ SitePoll

\* the script's thread is scheduled and its requests are answered; a crawl that
\* was started ends
SiteFairness ==
    /\ WF_vars(SiteSleep)
    /\ WF_vars(SitePoll)
    /\ WF_vars(\E st \in EndStates : CrawlEnds(st))

SiteSpec == InitScript /\ [][SiteNext]_vars /\ SiteFairness

\* crawl_site returns only after a poll that reported completed, and what it
\* returns is the URL of every record of that response, which is the whole list
ReturnsWholeList ==
    site.pc = "returned" =>
        /\ site.status = "completed"
        /\ site.urls = site.records
        /\ site.answer = UrlsOf(site.records)

\* C39: crawl_site eventually returns for every crawl it started successfully,
\* whatever state the crawl ends in, and it returns only after a status poll
\* reports completed, giving the URL of every record of that full
\* (non-incremental) response.
C39_CrawlSiteReturns ==
    /\ Polling ~> (site.pc = "returned")
    /\ []ReturnsWholeList

\* crawl_site returns for every crawl that ends completed
C39_ReturnsWhenCompleted ==
    (Polling /\ site.crawl = "completed") ~> (site.pc = "returned")

=============================================================================
